---- MODULE Spec2Model ----
(***************************************************************************)
(* A model of pinto (src/pinto): resolution of a project's environment     *)
(* (env.py), the environment lifecycle of both backends (env.py), Project  *)
(* install/run (project.py), Pipeline.run (project.py) and the manifest an *)
(* instance holds (project.py).                                            *)
(*                                                                         *)
(* Strings are sequences of atoms.  An atom is either one of the separator *)
(* characters "-", "_", ".", ":", "/" or a maximal run of other            *)
(* characters, so "foo-base" is <<"foo", "-", "base">> and string          *)
(* concatenation is \o.  An optional value (None, an unset variable, a     *)
(* missing file) is the empty sequence <<>>, a present value v is <<v>>.   *)
(***************************************************************************)
EXTENDS Integers, Sequences, FiniteSets, TLC

VARIABLES
    tree,        \* directories from the project directory (1) up to the root
    poetryToml,  \* <project dir>/poetry.toml
    pyproject,   \* <project dir>/pyproject.toml
    dotfiles,    \* dotenv files of the project directory
    osenv,       \* os.environ of the pinto process
    envs,        \* names of the environments the backends hold
    pkgs,        \* names of the environments the project is installed in
    cache,       \* conda's cached package listings (PrefixData._cache_)
    proj,        \* the Project object and its Environment (_venv)
    listing,     \* the package names the backend lists for an environment
    pipefile,    \* <pipeline dir>/pyproject.toml
    pipeline,    \* the Pipeline object
    last,        \* the last call made: its arguments, backend calls, outcome
    nruns,       \* number of Project.run or Pipeline.run calls made so far
    manifest,    \* the objects of ProjectBase._config and of its copies
    procs        \* the processes that are inside create() at the same time

vars == <<tree, poetryToml, pyproject, dotfiles, osenv, envs, pkgs, cache,
          proj, listing, pipefile, pipeline, last, nruns, manifest, procs>>

(***************************************************************************)
(* Bounds                                                                  *)
(***************************************************************************)
\* longest chain of directories from the project directory to the root
MaxDepth == 3
\* number of Project.run or Pipeline.run calls followed
MaxRuns == 2
\* objects followed: those of the manifest and the copies handed out
MaxObjects == 7
\* changes the caller makes to objects it was handed
MaxWrites == 2
\* longest step list of a pipeline
MaxSteps == 2

None == <<>>
Some(v) == <<v>>
IsSome(o) == Len(o) = 1
Get(o) == o[1]

(***************************************************************************)
(* String helpers                                                          *)
(***************************************************************************)
Last(s) == s[Len(s)]

\* index of the last "." of the final path component, 0 if there is none
RECURSIVE LastDot(_, _)
LastDot(s, i) ==
    IF i = 0 THEN 0
    ELSE IF s[i] = "/" THEN 0
    ELSE IF s[i] = "." THEN i
    ELSE LastDot(s, i - 1)

\* pathlib's PurePath.suffix: the final component's last dot and what
\* follows it, empty when the dot leads or ends the component
Suffix(s) ==
    LET i == LastDot(s, Len(s))
    IN  IF i = 0 \/ i = Len(s) THEN <<>>
        ELSE IF i = 1 THEN <<>>
        ELSE IF s[i - 1] = "/" THEN <<>>
        ELSE SubSeq(s, i, Len(s))

(***************************************************************************)
(* env.py: name helpers                                                    *)
(***************************************************************************)
\* _base_pattern = re.compile("(?<=-)base$"): search succeeds
BasePatternSearch(env_name) ==
    /\ Len(env_name) >= 2
    /\ Last(env_name) = "base"
    /\ env_name[Len(env_name) - 1] = "-"

_is_yaml(fname) == Suffix(fname) \in {<<".", "yml">>, <<".", "yaml">>}

\* a normalisation that leaves every name as it is
_normalize_env_name_Ident(env_name, project_name) == env_name

\* _base_pattern.sub(project_name, env_name)
_normalize_env_name(env_name, project_name) ==
    IF BasePatternSearch(env_name)
    THEN SubSeq(env_name, 1, Len(env_name) - 1) \o project_name
    ELSE env_name

\* _read_env_name: the text after "name: ", ValueError when no line has one
\* (a declared name is the empty string exactly when the search fails)
_read_env_name(content) ==
    IF content = <<>> THEN [err |-> "ValueError", name |-> <<>>]
    ELSE [err |-> "ok", name |-> content]

(***************************************************************************)
(* The directory tree: tree[1] is the project directory, tree[i + 1] the   *)
(* parent of tree[i], tree[Len(tree)] the filesystem root.  A directory    *)
(* is [yaml, yml]: the optional declared names of environment.yaml and     *)
(* environment.yml.  env_dir 0 is the starting Path  self.path / "*".      *)
(***************************************************************************)
DirAtoms == <<"d1", "d2", "d3", "d4", "d5", "d6">>

Parent(t, env_dir) == IF env_dir = Len(t) THEN env_dir ELSE env_dir + 1

RECURSIVE DirPath(_, _)
DirPath(t, i) ==
    IF i = Len(t) THEN <<"/">>
    ELSE IF i + 1 = Len(t) THEN <<"/", DirAtoms[i]>>
    ELSE DirPath(t, i + 1) \o <<"/", DirAtoms[i]>>

\* a base_env: its text and, for a file the search found, where it lies
FileRef(t, d, suffix) ==
    [str |-> (IF d = Len(t) THEN <<"/">> ELSE DirPath(t, d) \o <<"/">>)
                \o <<"environment", ".", suffix>>,
     dir |-> d, suffix |-> suffix]
NameRef(s) == [str |-> s, dir |-> 0, suffix |-> ""]
NoRef == NameRef(<<>>)

FileContent(t, ref) ==
    IF ref.suffix = "yaml" THEN Get(t[ref.dir].yaml) ELSE Get(t[ref.dir].yml)

\* a loop that stops below the filesystem root
RECURSIVE LookLoop_StopBelowRoot(_, _, _)
LookLoop_StopBelowRoot(t, env_dir, visited) ==
    LET d == Parent(t, env_dir)
    IN  IF Parent(t, d) = d
        THEN [found |-> FALSE, dir |-> env_dir, suffix |-> "",
              visited |-> visited]
        ELSE LET v == Append(visited, d)
             IN  IF IsSome(t[d].yaml)
                 THEN [found |-> TRUE, dir |-> d, suffix |-> "yaml",
                       visited |-> v]
                 ELSE IF IsSome(t[d].yml)
                 THEN [found |-> TRUE, dir |-> d, suffix |-> "yml",
                       visited |-> v]
                 ELSE LookLoop_StopBelowRoot(t, d, v)

\* the while loop of _look_for_environment_file, lines 208-229; env_dir 0
\* is <project dir>/*, whose parent is the project directory
RECURSIVE LookLoop(_, _, _)
LookLoop(t, env_dir, visited) ==
    IF Parent(t, env_dir) = env_dir
    THEN [found |-> FALSE, dir |-> env_dir, suffix |-> "", visited |-> visited]
    ELSE LET d == Parent(t, env_dir)
             v == Append(visited, d)
         IN  IF IsSome(t[d].yaml)
             THEN [found |-> TRUE, dir |-> d, suffix |-> "yaml", visited |-> v]
             ELSE IF IsSome(t[d].yml)
             THEN [found |-> TRUE, dir |-> d, suffix |-> "yml", visited |-> v]
             ELSE LookLoop(t, d, v)

\* a naming rule that treats the project's own directory as any other
LookName_NoOwnDirCase(t, hit, declared, hasName, project_name) ==
    IF ~hasName THEN [err |-> "AttributeError", name |-> <<>>]
    ELSE IF BasePatternSearch(declared)
    THEN [err |-> "ok", name |-> _normalize_env_name(declared, project_name)]
    ELSE [err |-> "ok", name |-> project_name]

\* the naming rule of _look_for_environment_file, lines 231-240; the
\* project's name is read only where the code reads it
LookName(t, hit, declared, hasName, project_name) ==
    IF hit.dir # 1
    THEN IF ~hasName THEN [err |-> "AttributeError", name |-> <<>>]
         ELSE IF BasePatternSearch(declared)
         THEN [err |-> "ok",
               name |-> _normalize_env_name(declared, project_name)]
         ELSE [err |-> "ok", name |-> project_name]
    ELSE [err |-> "ok", name |-> declared]

\* a search that falls back on the project's name when it finds no file
_look_for_environment_file_Fallback(t, hasName, project_name) ==
    LET hit == LookLoop(t, 0, <<>>)
    IN  IF ~hit.found
        THEN [err |-> "ok", base_env |-> NameRef(project_name),
              name |-> project_name, visited |-> hit.visited, msg |-> <<>>]
        ELSE LET ref == FileRef(t, hit.dir, hit.suffix)
                 rd  == _read_env_name(FileContent(t, ref))
                 nm  == LookName(t, hit, rd.name, hasName, project_name)
             IN  [err |-> IF rd.err # "ok" THEN rd.err ELSE nm.err,
                  base_env |-> ref, name |-> nm.name,
                  visited |-> hit.visited, msg |-> <<>>]

\* CondaEnvironment._look_for_environment_file; msg is the path an error
\* message names
_look_for_environment_file(t, hasName, project_name) ==
    LET hit == LookLoop(t, 0, <<>>)
    IN  IF ~hit.found
        THEN [err |-> "ValueError", base_env |-> NoRef, name |-> <<>>,
              visited |-> hit.visited, msg |-> DirPath(t, 1)]
        ELSE LET ref == FileRef(t, hit.dir, hit.suffix)
                 rd  == _read_env_name(FileContent(t, ref))
             IN  IF rd.err # "ok"
                 THEN [err |-> rd.err, base_env |-> NoRef, name |-> <<>>,
                       visited |-> hit.visited, msg |-> ref.str]
                 ELSE LET nm == LookName(t, hit, rd.name, hasName, project_name)
                      IN  [err |-> nm.err,
                           base_env |-> IF nm.err = "ok" THEN ref ELSE NoRef,
                           name |-> nm.name, visited |-> hit.visited,
                           msg |-> <<>>]

\* CondaEnvironment.__post_init__; base_env is pinto_config's optional
\* "base_env" string.  A manifest string has no read_text, so
\* _read_env_name(base_env) on line 195 raises AttributeError.
CondaPostInit(t, base_env, hasName, project_name) ==
    IF ~IsSome(base_env)
    THEN LET r == _look_for_environment_file(t, hasName, project_name)
         IN  [err |-> r.err, base_env |-> r.base_env, name |-> r.name,
              searched |-> TRUE, visited |-> r.visited, msg |-> r.msg]
    ELSE IF _is_yaml(Get(base_env))
    THEN [err |-> "AttributeError", base_env |-> NoRef, name |-> <<>>,
          searched |-> FALSE, visited |-> <<>>, msg |-> <<>>]
    ELSE IF ~hasName
    THEN [err |-> "AttributeError", base_env |-> NoRef, name |-> <<>>,
          searched |-> FALSE, visited |-> <<>>, msg |-> <<>>]
    ELSE [err |-> "ok", base_env |-> NameRef(Get(base_env)),
          name |-> _normalize_env_name(Get(base_env), project_name),
          searched |-> FALSE, visited |-> <<>>, msg |-> <<>>]

\* a choice that takes a missing key for a falsy one
EnvClass_CreateKeyOnly(toml) ==
    IF ~IsSome(toml) THEN "Poetry"
    ELSE IF ~Get(toml).hasVirtualenvs \/ ~Get(toml).hasCreate THEN "Conda"
    ELSE IF Get(toml).create THEN "Poetry" ELSE "Conda"

\* Environment.__new__: the class chosen from <project dir>/poetry.toml
EnvClass(toml) ==
    IF ~IsSome(toml) THEN "Poetry"
    ELSE IF ~Get(toml).hasVirtualenvs \/ ~Get(toml).hasCreate THEN "Poetry"
    ELSE IF Get(toml).create THEN "Poetry" ELSE "Conda"

(***************************************************************************)
(* project.py: construction.  pyproject is                                 *)
(*   [shape, name, base_env, cuda, append]                                 *)
(* where shape says how much of the manifest is there: "nodir" (no project *)
(* directory), "nofile" (no pyproject.toml), "notool" (no tool table),     *)
(* "nopoetry" (no tool.poetry table), "noname" (no name key) or "ok";      *)
(* base_env, cuda and append are the keys base_env, cuda-version and       *)
(* conda.append_base_ld_library_path of tool.pinto, None when not there.   *)
(***************************************************************************)
\* Project.pinto_config: tool.pinto, or {} when a table is missing
PintoGet(py, key) ==
    IF py.shape \in {"nodir", "nofile", "notool"} THEN None
    ELSE IF key = "base_env" THEN py.base_env
    ELSE py.cuda

\* EnvManager.generate_env_name(project.name, str(project.path))
PoetryEnvName(project_name) == project_name \o <<"-", "hash", "-", "py3">>

NoProject ==
    [state |-> "none", err |-> "ok", hasName |-> FALSE, name |-> <<>>,
     kind |-> "", envName |-> <<>>, base_env |-> NoRef, handle |-> FALSE,
     searched |-> FALSE, visited |-> <<>>, msg |-> <<>>]

Failed(err, kind, searched, visited, msg) ==
    [NoProject EXCEPT !.state = "failed", !.err = err, !.kind = kind,
                      !.searched = searched, !.visited = visited,
                      !.msg = msg]

\* PoetryEnvironment.__post_init__: the handle is retrieved (create()) when
\* the virtual environment exists, and is None otherwise.  create_poetry
\* needs a tool.poetry table with a name.
PoetryPostInit(hasName, project_name, E) ==
    IF ~hasName THEN Failed("PoetryError", "Poetry", FALSE, <<>>, <<>>)
    ELSE [NoProject EXCEPT !.state = "ok", !.hasName = TRUE,
                           !.name = project_name, !.kind = "Poetry",
                           !.envName = PoetryEnvName(project_name),
                           !.handle = PoetryEnvName(project_name) \in E]

\* ProjectBase.__post_init__, Project.__post_init__ and Environment(self)
ProjectPostInit(t, toml, py, E) ==
    IF py.shape \in {"nodir", "nofile"}
    THEN Failed("ValueError", "", FALSE, <<>>, <<>>)
    ELSE IF py.shape = "nopoetry"
    THEN Failed("ValueError", "", FALSE, <<>>, <<>>)
    ELSE LET hasName == py.shape = "ok"
             pname   == IF hasName THEN py.name ELSE <<>>
         IN  IF EnvClass(toml) = "Poetry"
             THEN PoetryPostInit(hasName, pname, E)
             ELSE LET c == CondaPostInit(t, PintoGet(py, "base_env"),
                                         hasName, pname)
                  IN  IF c.err # "ok"
                      THEN Failed(c.err, "Conda", c.searched, c.visited,
                                  c.msg)
                      ELSE [NoProject EXCEPT
                               !.state = "ok", !.hasName = hasName,
                               !.name = pname, !.kind = "Conda",
                               !.envName = c.name, !.base_env = c.base_env,
                               !.searched = c.searched,
                               !.visited = c.visited]

(***************************************************************************)
(* env.py: the lifecycle of an environment.  A call works on a record m:   *)
(*   osenv, envs, pkgs, cache  the process environment and the backends,   *)
(*   handle   PoetryEnvironment._venv is set,                              *)
(*   calls    the Environment methods the Project has called so far, with  *)
(*            their answers,                                               *)
(*   backend  the conda commands issued so far,                            *)
(*   ret, code  "ok" or the exception raised (code: SystemExit's code),    *)
(*   ans      the answer of the last exists() or contains(),               *)
(*   child    the environment each child process started has seen,         *)
(*   argv     the command line of each child process started,              *)
(*   exit     the exit code of each child process started,                 *)
(*   entry    LD_LIBRARY_PATH at each entry of a Shared run(),             *)
(*   leave    LD_LIBRARY_PATH as that run() leaves it,                     *)
(*   loaded   the calls of load_dotenv that were not replaced by a no-op,  *)
(*   printed  what the children have written to the parent's stdout,       *)
(*   extra    the arguments a pinto command was given beyond its own,      *)
(*   returned the value the call returns (None, or Some text).             *)
(* p is the Project (the proj record).  What the backend does that the     *)
(* code cannot decide is an input b: b.create (conda env create -f         *)
(* succeeds), b.clone, b.install and b.run (exit codes).                   *)
(***************************************************************************)
Call(m, name, ans) ==
    [m EXCEPT !.calls = Append(@, [call |-> name, ans |-> ans]),
              !.ans = ans]
Raise(m, exc, code) == [m EXCEPT !.ret = exc, !.code = code]
Backend(m, cmd, name) ==
    [m EXCEPT !.backend = Append(@, [cmd |-> cmd, name |-> name])]

\* _env_exists and EnvManager.get() != get_system_env(): a live query
VenvExists(m, p) == Call(m, "exists", p.envName \in m.envs)

S_ld_var == "LD_LIBRARY_PATH"
S_lib == <<"/", "lib">>

\* the script testme of the test projects prints one line
S_testme == <<"testme">>
S_hear   == <<"can you hear me?">>
Stdout(args) == IF args[1] = S_testme THEN <<S_hear>> ELSE <<>>

\* a run whose finally block is missing
CondaRunBody_NoRestore(m, p, args, rc) ==
    LET ld == m.osenv[S_ld_var]
    IN  IF IsSome(ld) /\ ~IsSome(m.osenv["CONDA_PREFIX"])
        THEN Raise([m EXCEPT !.entry = Append(@, ld),
                             !.leave = Append(@, ld)], "KeyError", 0)
        ELSE LET during ==
                     IF IsSome(ld)
                     THEN [m.osenv EXCEPT ![S_ld_var] =
                             Some(Get(ld) \o <<":">>
                                  \o Get(m.osenv["CONDA_PREFIX"]) \o S_lib)]
                     ELSE m.osenv
                 ran == [m EXCEPT !.osenv = during,
                                  !.entry = Append(@, ld),
                                  !.leave = Append(@, during[S_ld_var]),
                                  !.child = Append(@, during),
                                  !.argv = Append(@, args),
                                  !.exit = Append(@, rc),
                                  !.printed = @ \o Stdout(args),
                                  !.returned = None]
             IN  IF rc # 0 THEN Raise(ran, "SystemExit", rc) ELSE ran

\* CondaEnvironment.run, without its Call entry.  entry and leave keep the
\* parent's LD_LIBRARY_PATH as the method finds it and as it leaves it.
CondaRunBody(m, p, args, rc) ==
    LET ld == m.osenv[S_ld_var]
    IN  IF IsSome(ld) /\ ~IsSome(m.osenv["CONDA_PREFIX"])
        \* os.environ["CONDA_PREFIX"] fails before anything is assigned
        THEN Raise([m EXCEPT !.entry = Append(@, ld),
                             !.leave = Append(@, ld)], "KeyError", 0)
        ELSE LET during ==
                     IF IsSome(ld)
                     THEN [m.osenv EXCEPT ![S_ld_var] =
                             Some(Get(ld) \o <<":">>
                                  \o Get(m.osenv["CONDA_PREFIX"]) \o S_lib)]
                     ELSE m.osenv
                 \* the finally block puts ld back when it was set
                 after ==
                     IF IsSome(ld)
                     THEN [v \in DOMAIN during |->
                             IF v = S_ld_var THEN ld ELSE during[v]]
                     ELSE during
                 \* nothing is returned: the value of
                 \* _run_conda_command is dropped, and --no-capture-output
                 \* lets the child write to the parent's stdout
                 ran == [m EXCEPT !.osenv = after,
                                  !.entry = Append(@, ld),
                                  !.leave = Append(@, after[S_ld_var]),
                                  !.child = Append(@, during),
                                  !.argv = Append(@, args),
                                  !.exit = Append(@, rc),
                                  !.printed = @ \o Stdout(args),
                                  !.returned = None]
             IN  IF rc # 0 THEN Raise(ran, "SystemExit", rc) ELSE ran

\* a run that does not look at the child's exit code
PoetryRunBody_Swallow(m, p, args, rc) ==
    IF ~m.handle THEN Raise(m, "AttributeError", 0)
    ELSE [m EXCEPT !.child = Append(@, m.osenv),
                   !.argv = Append(@, args),
                   !.exit = Append(@, rc),
                   !.printed = @ \o Stdout(args),
                   !.returned = None]

\* PoetryEnvironment.run, without its Call entry: the child gets a copy of
\* os.environ and the parent's stdout (Popen without stdout=PIPE), and
\* nothing is returned; a missing handle has no get_command_from_bin
PoetryRunBody(m, p, args, rc) ==
    IF ~m.handle THEN Raise(m, "AttributeError", 0)
    ELSE LET ran == [m EXCEPT !.child = Append(@, m.osenv),
                              !.argv = Append(@, args),
                              !.exit = Append(@, rc),
                              !.printed = @ \o Stdout(args),
                              !.returned = None]
         IN  IF rc # 0 THEN Raise(ran, "SystemExit", rc) ELSE ran

\* Environment.run(bin, *args)
VenvRun(m, p, args, rc) ==
    IF p.kind = "Conda" THEN CondaRunBody(Call(m, "run", FALSE), p, args, rc)
    ELSE PoetryRunBody(Call(m, "run", FALSE), p, args, rc)

\* a clone that does not look whether its source is there
CloneFrom_NoCheck(m, p, env_name, b) ==
    IF b.clone # 0
    THEN Raise(Backend(m, "clone", p.envName), "SystemExit", b.clone)
    ELSE [Backend(m, "clone", p.envName) EXCEPT
             !.envs = @ \cup {p.envName},
             !.pkgs = IF env_name \in @ THEN @ \cup {p.envName} ELSE @]

\* lines 287-299 of CondaEnvironment.create: the target is cloned from the
\* environment env_name, which has to be there; msg is the name the
\* ValueError gives
CloneFrom(m, p, env_name, b) ==
    IF env_name \notin m.envs
    THEN [Raise(m, "ValueError", 0) EXCEPT !.msg = env_name]
    ELSE IF b.clone # 0
    THEN Raise(Backend(m, "clone", p.envName), "SystemExit", b.clone)
    ELSE [Backend(m, "clone", p.envName) EXCEPT
             !.envs = @ \cup {p.envName},
             !.pkgs = IF env_name \in @ THEN @ \cup {p.envName} ELSE @]

\* a create() that does not look whether the environment is there
CondaCreate_NoExistsCheck(m, p, t, b) ==
    LET yaml == _is_yaml(p.base_env.str)
             rd   == IF yaml THEN _read_env_name(FileContent(t, p.base_env))
                     ELSE [err |-> "ok", name |-> p.base_env.str]
             env_name == rd.name
             made == IF yaml /\ env_name \notin m.envs
                     THEN IF b.create
                          THEN [Backend(m, "env create", env_name)
                                  EXCEPT !.envs = @ \cup {env_name}]
                          ELSE Raise(Backend(m, "env create", env_name),
                                     "RuntimeError", 0)
                     ELSE m
         IN  IF rd.err # "ok" THEN Raise(m, rd.err, 0)
             ELSE IF made.ret # "ok" THEN made
             ELSE IF yaml /\ env_name = p.envName THEN made
             ELSE CloneFrom(made, p, env_name, b)

\* a create() that clones also when the file declares the target itself
CondaCreate_AlwaysClone(m, p, t, b) ==
    IF p.envName \in m.envs THEN m
    ELSE LET yaml == _is_yaml(p.base_env.str)
             rd   == IF yaml THEN _read_env_name(FileContent(t, p.base_env))
                     ELSE [err |-> "ok", name |-> p.base_env.str]
             env_name == rd.name
             made == IF yaml /\ env_name \notin m.envs
                     THEN IF b.create
                          THEN [Backend(m, "env create", env_name)
                                  EXCEPT !.envs = @ \cup {env_name}]
                          ELSE Raise(Backend(m, "env create", env_name),
                                     "RuntimeError", 0)
                     ELSE m
         IN  IF rd.err # "ok" THEN Raise(m, rd.err, 0)
             ELSE IF made.ret # "ok" THEN made
             ELSE CloneFrom(made, p, env_name, b)

\* a create() that makes the file's environment without asking for it
CondaCreate_AlwaysFromFile(m, p, t, b) ==
    IF p.envName \in m.envs THEN m
    ELSE LET yaml == _is_yaml(p.base_env.str)
             rd   == IF yaml THEN _read_env_name(FileContent(t, p.base_env))
                     ELSE [err |-> "ok", name |-> p.base_env.str]
             env_name == rd.name
             made == IF yaml
                     THEN IF b.create
                          THEN [Backend(m, "env create", env_name)
                                  EXCEPT !.envs = @ \cup {env_name}]
                          ELSE Raise(Backend(m, "env create", env_name),
                                     "RuntimeError", 0)
                     ELSE m
         IN  IF rd.err # "ok" THEN Raise(m, rd.err, 0)
             ELSE IF made.ret # "ok" THEN made
             ELSE IF yaml /\ env_name = p.envName THEN made
             ELSE CloneFrom(made, p, env_name, b)

\* CondaEnvironment.create, lines 245-299
CondaCreate(m, p, t, b) ==
    IF p.envName \in m.envs THEN m
    ELSE LET yaml == _is_yaml(p.base_env.str)
             rd   == IF yaml THEN _read_env_name(FileContent(t, p.base_env))
                     ELSE [err |-> "ok", name |-> p.base_env.str]
             env_name == rd.name
             made == IF yaml /\ env_name \notin m.envs
                     THEN IF b.create
                          THEN [Backend(m, "env create", env_name)
                                  EXCEPT !.envs = @ \cup {env_name}]
                          ELSE Raise(Backend(m, "env create", env_name),
                                     "RuntimeError", 0)
                     ELSE m
         IN  IF rd.err # "ok" THEN Raise(m, rd.err, 0)
             ELSE IF made.ret # "ok" THEN made
             ELSE IF yaml /\ env_name = p.envName THEN made
             ELSE CloneFrom(made, p, env_name, b)

\* PoetryEnvironment.create: create_venv makes or retrieves the environment
PoetryCreate(m, p) ==
    [m EXCEPT !.envs = @ \cup {p.envName}, !.handle = TRUE]

\* Environment.create()
VenvCreate(m, p, t, b) ==
    IF p.kind = "Conda" THEN CondaCreate(Call(m, "create", FALSE), p, t, b)
    ELSE PoetryCreate(Call(m, "create", FALSE), p)

\* a construction that retrieves the handle without asking exists()
PostInitBackend_AlwaysCreate(m, p) ==
    IF p.state # "ok" \/ p.kind # "Poetry" THEN [m EXCEPT !.handle = FALSE]
    ELSE VenvCreate(VenvExists(m, p), p, <<>>, [create |-> TRUE])

\* what constructing the environment asks of the backend: nothing for
\* CondaEnvironment.__post_init__; PoetryEnvironment.__post_init__, lines
\* 66-69, asks exists() and calls create() to retrieve the handle when the
\* virtual environment is there
PostInitBackend(m, p) ==
    IF p.state # "ok" \/ p.kind # "Poetry" THEN [m EXCEPT !.handle = FALSE]
    ELSE LET m1 == VenvExists(m, p)
         IN  IF m1.ans THEN VenvCreate(m1, p, <<>>, [create |-> TRUE])
             ELSE [m1 EXCEPT !.handle = FALSE]

\* CondaEnvironment.contains: conda list answers from its cache when it
\* holds a listing of the environment, and fills the cache otherwise
CondaContains(m, p) ==
    IF ~p.hasName THEN Raise(m, "AttributeError", 0)
    ELSE IF p.envName \notin m.envs THEN Raise(m, "CondaError", 0)
    ELSE IF <<p.envName, TRUE>> \in m.cache
    THEN Call(m, "contains", TRUE)
    ELSE IF <<p.envName, FALSE>> \in m.cache
    THEN Call(m, "contains", FALSE)
    ELSE [Call(m, "contains", p.envName \in m.pkgs) EXCEPT
             !.cache = @ \cup {<<p.envName, p.envName \in m.pkgs>>}]

\* PoetryEnvironment.contains
PoetryContains(m, p) ==
    IF ~m.handle THEN Raise(m, "ValueError", 0)
    ELSE Call(m, "contains", p.envName \in m.pkgs)

\* Environment.contains(project)
VenvContains(m, p) ==
    IF p.kind = "Conda" THEN CondaContains(m, p) ELSE PoetryContains(m, p)

PoetryInstallCmd ==
    <<<<"/", "bin", "/", "bash">>, <<"-", "c">>, <<"poetry install">>>>

\* CondaEnvironment.env_root: os.path.join(CONDA_ROOT, "envs", self.name)
env_root(os, name) == Get(os["CONDA_ROOT"]) \o <<"/", "envs", "/">> \o name

\* CondaEnvironment.install: poetry install run in the environment, then
\* PrefixData._cache_.pop(self.env_root); env_root reads CONDA_ROOT inside
\* the try, so the KeyError of an unset CONDA_ROOT is swallowed as well
CondaInstall(m, p, b) ==
    LET ran == CondaRunBody(m, p, PoetryInstallCmd, b.install)
    IN  IF ran.ret # "ok" THEN ran
        ELSE LET done == [ran EXCEPT !.pkgs = @ \cup {p.envName}]
             IN  IF IsSome(done.osenv["CONDA_ROOT"])
                 THEN [done EXCEPT !.cache =
                          @ \ {<<p.envName, TRUE>>, <<p.envName, FALSE>>}]
                 ELSE done

\* PoetryEnvironment.install: Installer.run and EditableBuilder.build
PoetryInstall(m, p, b) ==
    IF ~m.handle THEN Raise(m, "AttributeError", 0)
    ELSE IF b.install # 0 THEN Raise(m, "BackendError", 0)
    ELSE [m EXCEPT !.pkgs = @ \cup {p.envName}]

\* Environment.install(extras)
VenvInstall(m, p, b) ==
    IF p.kind = "Conda" THEN CondaInstall(Call(m, "install", FALSE), p, b)
    ELSE PoetryInstall(Call(m, "install", FALSE), p, b)

(***************************************************************************)
(* project.py: Project.install and Project.run                             *)
(***************************************************************************)
\* Project.install(force, extras)
ProjectInstall(m, p, t, force, b) ==
    LET m1 == VenvExists(m, p)
        m2 == IF ~m1.ans THEN VenvCreate(m1, p, t, b) ELSE m1
        m3 == VenvContains(m2, p)
    IN  IF m2.ret # "ok" THEN m2
        ELSE IF m3.ret # "ok" THEN m3
        ELSE IF ~m3.ans THEN VenvInstall(m3, p, b)
        ELSE IF force THEN VenvInstall(m3, p, b)
        ELSE m3

\* the library directory Project.run derives from cuda-version, lines 177-178
CudaPath(cuda) ==
    IF cuda.isdir THEN cuda.str
    ELSE <<"/", "usr", "/", "local", "/", "cuda", "-">> \o cuda.str
            \o <<"/", "lib64">>

\* a path put behind the entries already there
InjectCuda_Append(m, py) ==
    LET cuda_version == PintoGet(py, "cuda")
    IN  IF ~IsSome(cuda_version) THEN m
        ELSE LET ld_library_path ==
                     IF IsSome(m.osenv[S_ld_var]) THEN Get(m.osenv[S_ld_var])
                     ELSE <<>>
             IN  [m EXCEPT !.osenv[S_ld_var] =
                     Some(ld_library_path \o <<":">>
                          \o CudaPath(Get(cuda_version)))]

\* lines 172-184: the path goes in front of LD_LIBRARY_PATH ("" when unset)
InjectCuda(m, py) ==
    LET cuda_version == PintoGet(py, "cuda")
    IN  IF ~IsSome(cuda_version) THEN m
        ELSE LET ld_library_path ==
                     IF IsSome(m.osenv[S_ld_var]) THEN Get(m.osenv[S_ld_var])
                     ELSE <<>>
             IN  [m EXCEPT !.osenv[S_ld_var] =
                     Some(CudaPath(Get(cuda_version)) \o <<":">>
                          \o ld_library_path)]

\* a load that never looks at its argument
LoadDotenv_DefaultOnly(m, dot, env) ==
    IF ~IsSome(dot[".env"]) THEN m
    ELSE [m EXCEPT !.osenv =
             [v \in DOMAIN @ |->
                IF IsSome(@[v]) THEN @[v] ELSE Get(dot[".env"])[v]]]

\* ProjectBase.load_dotenv(env): <project dir>/(env or ".env"), when it
\* exists, is loaded by dotenv.load_dotenv, which leaves the variables the
\* process already has as they are
LoadDotenv(m, dot, env) ==
    LET file == IF IsSome(env) THEN Get(env) ELSE ".env"
    IN  IF ~IsSome(dot[file]) THEN m
        ELSE [m EXCEPT !.osenv =
                 [v \in DOMAIN @ |->
                    IF IsSome(@[v]) THEN @[v] ELSE Get(dot[file])[v]]]

\* the call self.load_dotenv(env) as self makes it ("project" or
\* "pipeline"), noted in m.loaded with the file looked for, whether it was
\* there, the environment it met and how far the call had got
load_dotenv(m, self, dot, env) ==
    LET file == IF IsSome(env) THEN Get(env) ELSE ".env"
    IN  [LoadDotenv(m, dot, env) EXCEPT
            !.loaded = Append(@, [by |-> self, file |-> file,
                                  found |-> IsSome(dot[file]),
                                  osenv |-> m.osenv,
                                  calls |-> Len(m.calls),
                                  done |-> m.done])]

\* a run that takes the dotenv file's variables out again when it is over
ProjectRun_ScopedDotenv(m, p, t, py, dot, args, env, loads, b) ==
    LET m1 == VenvExists(m, p)
        m2 == IF m1.ans THEN VenvContains(m1, p) ELSE m1
        m3 == IF m2.ret = "ok" /\ ~m2.ans
              THEN ProjectInstall(m2, p, t, FALSE, b) ELSE m2
        m4 == InjectCuda(m3, py)
        m5 == IF loads THEN load_dotenv(m4, "project", dot, env) ELSE m4
    IN  IF m3.ret # "ok" THEN m3
        ELSE [VenvRun(m5, p, args, b.run) EXCEPT !.osenv = m4.osenv]

\* Project.run(*args, env=env); loads says whether load_dotenv is the
\* method or the no-op Pipeline.run_step puts in its place
ProjectRun(m, p, t, py, dot, args, env, loads, b) ==
    LET m1 == VenvExists(m, p)
        m2 == IF m1.ans THEN VenvContains(m1, p) ELSE m1
        m3 == IF m2.ret = "ok" /\ ~m2.ans
              THEN ProjectInstall(m2, p, t, FALSE, b) ELSE m2
        m4 == InjectCuda(m3, py)
        m5 == IF loads THEN load_dotenv(m4, "project", dot, env) ELSE m4
    IN  IF m3.ret # "ok" THEN m3
        ELSE VenvRun(m5, p, args, b.run)

(***************************************************************************)
(* The record of the last call                                             *)
(***************************************************************************)
\* nobody is inside create()
NoProcs == <<>>

NoCall ==
    [op |-> "none", force |-> FALSE, env |-> None, calls |-> <<>>,
     backend |-> <<>>, ret |-> "ok", code |-> 0, ld0 |-> None,
     envs0 |-> {}, pkgs0 |-> {}, child |-> <<>>, argv |-> <<>>,
     done |-> 0, msg |-> <<>>, printed |-> <<>>, returned |-> None,
     exit |-> <<>>, entry |-> <<>>, leave |-> <<>>, loaded |-> <<>>,
     extra |-> <<>>]

\* the record a call starts from
Start ==
    [osenv |-> osenv, envs |-> envs, pkgs |-> pkgs, cache |-> cache,
     handle |-> proj.handle, calls |-> <<>>, backend |-> <<>>,
     ret |-> "ok", code |-> 0, ans |-> FALSE, child |-> <<>>,
     argv |-> <<>>, done |-> 0, msg |-> <<>>, printed |-> <<>>,
     returned |-> None, exit |-> <<>>, entry |-> <<>>, leave |-> <<>>,
     loaded |-> <<>>, extra |-> <<>>]

\* what a call leaves behind
Finish(m, op, force, env) ==
    /\ osenv' = m.osenv
    /\ envs' = m.envs
    /\ pkgs' = m.pkgs
    /\ cache' = m.cache
    /\ last' = [op |-> op, force |-> force, env |-> env, calls |-> m.calls,
                backend |-> m.backend, ret |-> m.ret, code |-> m.code,
                ld0 |-> osenv[S_ld_var], envs0 |-> envs, pkgs0 |-> pkgs,
                child |-> m.child, argv |-> m.argv, done |-> m.done,
                msg |-> m.msg, printed |-> m.printed,
                returned |-> m.returned, exit |-> m.exit,
                entry |-> m.entry, leave |-> m.leave, loaded |-> m.loaded,
                extra |-> m.extra]
    /\ UNCHANGED <<tree, poetryToml, pyproject, dotfiles, listing, pipefile,
                   manifest, procs>>

\* every failure raises out of the call, so a call meets at most one
AllFine == [create |-> TRUE, clone |-> 0, install |-> 0, run |-> 0]
Outcomes ==
    {AllFine, [AllFine EXCEPT !.create = FALSE], [AllFine EXCEPT !.clone = 1],
     [AllFine EXCEPT !.install = 1], [AllFine EXCEPT !.run = 3]}
DotNames == {".env", "other", "missing"}

\* Project(path)
Construct ==
    \E p \in {ProjectPostInit(tree, poetryToml, pyproject, envs)} :
       \E m \in {PostInitBackend(Start, p)} :
          /\ Finish([m EXCEPT !.ret = p.err], "construct", FALSE, None)
          /\ proj' = [p EXCEPT !.handle = m.handle]
          /\ UNCHANGED <<pipeline, nruns>>

\* the command line Project.run is given
S_cmd == <<S_testme>>

\* project.install(force)
Install ==
    /\ proj.state = "ok"
    /\ \E force \in BOOLEAN, b \in Outcomes :
          \E m \in {ProjectInstall(Start, proj, tree, force, b)} :
              /\ Finish(m, "install", force, None)
              /\ proj' = [proj EXCEPT !.handle = m.handle]
    /\ UNCHANGED <<pipeline, nruns>>

\* project.run(*args, env=env)
Run ==
    /\ proj.state = "ok"
    /\ nruns < MaxRuns
    /\ \E env \in {None} \cup {Some(f) : f \in DotNames \ {".env"}},
          b \in Outcomes :
          \E m \in {ProjectRun(Start, proj, tree, pyproject, dotfiles,
                                S_cmd, env, TRUE, b)} :
              /\ Finish(m, "run", FALSE, env)
              /\ proj' = [proj EXCEPT !.handle = m.handle]
    /\ nruns' = nruns + 1
    /\ UNCHANGED pipeline

\* project.venv.create()
Create ==
    /\ proj.state = "ok"
    /\ \E b \in Outcomes :
          \E m \in {VenvCreate(Start, proj, tree, b)} :
              /\ Finish(m, "create", FALSE, None)
              /\ proj' = [proj EXCEPT !.handle = m.handle]
    /\ UNCHANGED <<pipeline, nruns>>

(***************************************************************************)
(* Inputs                                                                  *)
(***************************************************************************)
S_foo_base   == <<"foo", "-", "base">>
S_foo_base_x == <<"foo", "-", "base", "-", "x">>
S_env        == <<"env">>
S_base       == <<"base">>
S_alt        == <<"alt">>
S_bar        == <<"bar">>
S_widgets    == <<"widgets">>
S_team_base  == <<"team", "-", "base">>
S_solo       == <<"solo">>
S_file_yaml  == <<"envs", "/", "e", ".", "yaml">>
S_file_yml   == <<"e", ".", "yml">>

\* what lies at the paths a manifest's base_env may give: envs/e.yaml is an
\* environment file declaring foo-base, e.yml is not there
ManifestFile(path) == IF path = S_file_yaml THEN Some(S_foo_base) ELSE None

\* names an environment file may declare; <<>> is a file with no name field
DeclNames == {S_foo_base, S_foo_base_x, S_env, S_base, <<>>}

Dirs ==
    [yaml : {None} \cup {Some(n) : n \in DeclNames},
     yml  : {None, Some(S_alt)}]

Trees == UNION {[1..n -> Dirs] : n \in 1..MaxDepth}

Toml(v, c, b) == Some([hasVirtualenvs |-> v, hasCreate |-> c, create |-> b])
TomlShared == Toml(TRUE, TRUE, FALSE)
Tomls ==
    {None, Toml(FALSE, FALSE, FALSE), Toml(TRUE, FALSE, FALSE),
     Toml(TRUE, TRUE, TRUE), TomlShared}

Py(shape, name, base_env, cuda) ==
    [shape |-> shape, name |-> name, base_env |-> base_env, cuda |-> cuda,
     append |-> None]

Shapes == {"nodir", "nofile", "notool", "nopoetry", "noname", "ok"}

ResolveManifests ==
    {<<toml, Py("ok", S_bar, None, None)>> : toml \in Tomls}
    \cup {<<TomlShared, Py("ok", n, Some(b), None)>> :
            n \in {S_bar, S_widgets},
            b \in {S_team_base, S_solo, S_file_yaml, S_file_yml}}
    \cup {<<TomlShared, Py("ok", S_widgets, None, None)>>}
    \cup {<<toml, Py(sh, S_bar, None, None)>> :
            toml \in {None, TomlShared}, sh \in Shapes \ {"ok"}}

EnvVars == {"LD_LIBRARY_PATH", "CONDA_PREFIX", "CONDA_ROOT", "ENVARG"}
NoOsEnv == [v \in EnvVars |-> None]

NoDotfiles == [f \in DotNames |-> None]
DotContent(ld, envarg) ==
    [v \in EnvVars |-> IF v = S_ld_var THEN ld
                       ELSE IF v = "ENVARG" THEN envarg ELSE None]
Dotfiles ==
    {NoDotfiles,
     [NoDotfiles EXCEPT
        ![".env"] = Some(DotContent(None, Some(<<"1">>))),
        !["other"] = Some(DotContent(Some(<<"/", "dot">>), Some(<<"2">>)))],
     [NoDotfiles EXCEPT
        !["other"] = Some(DotContent(None, Some(<<"2">>)))]}

NoDir == [yaml |-> None, yml |-> None]
NoPipefile == [shape |-> "nodir", steps |-> None, typeo |-> None]
NoPipeline == [state |-> "none", err |-> "ok", steps |-> None, typeo |-> None]
\* no manifest has been read
NoManifest == [heap |-> <<>>, held |-> None, writes |-> 0, atLoad |-> <<>>]
Cudas ==
    {None, Some([isdir |-> FALSE, str |-> <<"11", ".", "2">>]),
     Some([isdir |-> TRUE, str |-> <<"local", "-", "dir">>])}

\* tool.pinto as the lifecycle sees it: cuda-version and the flag
\* conda.append_base_ld_library_path
PintoTables ==
    {<<cuda, None>> : cuda \in Cudas}
    \cup {<<None, Some(TRUE)>>, <<None, Some(FALSE)>>}

\* the projects whose lifecycle is followed: tree, poetry.toml, base_env
Projects ==
    {<<<<NoDir, NoDir>>, None, None>>,
     <<<<[NoDir EXCEPT !.yaml = Some(S_env)], NoDir>>, TomlShared, None>>,
     <<<<NoDir, [NoDir EXCEPT !.yaml = Some(S_foo_base)]>>, TomlShared, None>>,
     <<<<NoDir, [NoDir EXCEPT !.yml = Some(S_env)]>>, TomlShared, None>>,
     <<<<NoDir, NoDir>>, TomlShared, Some(S_team_base)>>,
     <<<<NoDir, NoDir>>, TomlShared, Some(S_solo)>>}

S_conda == <<"/", "opt", "/", "conda">>
OsEnvs ==
    {[NoOsEnv EXCEPT ![S_ld_var] = ld, !["CONDA_PREFIX"] = prefix,
                     !["CONDA_ROOT"] = root] :
        ld \in {None, Some(<<"/", "opt", "/", "lib">>)},
        prefix \in {None, Some(S_conda)},
        root \in {None, Some(S_conda)}}

Init ==
    /\ \E c \in Projects, pt \in PintoTables :
          /\ tree = c[1]
          /\ poetryToml = c[2]
          /\ pyproject = [Py("ok", S_bar, c[3], pt[1]) EXCEPT
                             !.append = pt[2]]
    /\ dotfiles \in Dotfiles
    /\ osenv \in OsEnvs
    /\ envs \in {{}, {S_team_base, S_solo}}
    /\ pkgs = {}
    /\ cache = {}
    /\ proj = NoProject
    /\ listing = {}
    /\ pipefile = NoPipefile
    /\ pipeline = NoPipeline
    /\ last = NoCall
    /\ nruns = 0
    /\ manifest = NoManifest
    /\ procs = NoProcs

Next == Construct \/ Install \/ Run \/ Create

Spec == Init /\ [][Next]_vars

InitResolve ==
    /\ tree \in Trees
    /\ \E m \in ResolveManifests : poetryToml = m[1] /\ pyproject = m[2]
    /\ dotfiles = NoDotfiles
    /\ osenv = NoOsEnv
    /\ envs = {}
    /\ pkgs = {}
    /\ cache = {}
    /\ proj = NoProject
    /\ listing = {}
    /\ pipefile = NoPipefile
    /\ pipeline = NoPipeline
    /\ last = NoCall
    /\ nruns = 0
    /\ manifest = NoManifest
    /\ procs = NoProcs

NextResolve == Construct

SpecResolve == InitResolve /\ [][NextResolve]_vars

(***************************************************************************)
(* project.py: Pipeline.  The manifest of a pipeline holds the step list   *)
(* (tool.pinto.steps) and the typeo table (tool.typeo), whose "scripts"    *)
(* table is keyed by command.                                              *)
(***************************************************************************)
\* str.split(sep)
RECURSIVE Split(_, _)
Split(s, sep) ==
    LET at == {i \in 1..Len(s) : s[i] = sep}
    IN  IF at = {} THEN <<s>>
        ELSE LET i == CHOOSE k \in at : \A j \in at : k <= j
             IN  <<SubSeq(s, 1, i - 1)>> \o Split(SubSeq(s, i + 1, Len(s)), sep)

\* Pipeline.__post_init__
PipelinePostInit(file) ==
    IF file.shape \in {"nodir", "nofile"}
    THEN [NoPipeline EXCEPT !.state = "failed", !.err = "ValueError"]
    ELSE IF ~IsSome(file.steps)
    THEN [NoPipeline EXCEPT !.state = "failed", !.err = "ValueError"]
    ELSE IF ~IsSome(file.typeo)
    THEN [NoPipeline EXCEPT !.state = "failed", !.err = "ValueError"]
    ELSE [state |-> "ok", err |-> "ok", steps |-> file.steps,
          typeo |-> file.typeo]

S_pipe  == <<"/", "pipe">>
S_typeo == <<"-", "-", "typeo">>

\* lines 254-263 of Pipeline.run_step: the reference that follows --typeo
TypeoArg(path, typeo_config, command, subcommand) ==
    IF ~typeo_config.hasScripts
    THEN IF IsSome(subcommand)
         THEN path \o <<":", ":">> \o Get(subcommand) ELSE path
    ELSE LET typeo_arg == IF command \in typeo_config.scripts
                          THEN path \o <<":">> \o command ELSE path
         IN  IF IsSome(subcommand)
             THEN typeo_arg \o <<":">> \o Get(subcommand) ELSE typeo_arg

\* a step that leaves the project's load_dotenv in place
run_step_OwnDotenv(m, pl, project, c, command, subcommand, b) ==
    ProjectRun(m, project, c.tree, c.py, c.dot,
               <<command, S_typeo,
                 TypeoArg(S_pipe, Get(pl.typeo), command, subcommand)>>,
               None, TRUE, b)

\* Pipeline.run_step: the project runs the command with its own
\* load_dotenv replaced by a no-op
run_step(m, pl, project, c, command, subcommand, b) ==
    ProjectRun(m, project, c.tree, c.py, c.dot,
               <<command, S_typeo,
                 TypeoArg(S_pipe, Get(pl.typeo), command, subcommand)>>,
               None, FALSE, b)

\* the directories under the pipeline's: a is an Isolated project, b a
\* Shared one with its own environment file, anything else is missing
S_a == <<"a">>
S_b == <<"b">>
Component(name) ==
    IF name = S_a
    THEN [tree |-> <<NoDir, NoDir, NoDir>>, toml |-> None,
          py |-> Py("ok", S_a, None, None),
          dot |-> [NoDotfiles EXCEPT
                     ![".env"] = Some(DotContent(None, Some(<<"a">>)))]]
    ELSE IF name = S_b
    THEN [tree |-> <<[NoDir EXCEPT !.yaml = Some(S_env)], NoDir, NoDir>>,
          toml |-> TomlShared, py |-> Py("ok", S_b, None, None),
          dot |-> NoDotfiles]
    ELSE [tree |-> <<NoDir, NoDir, NoDir>>, toml |-> None,
          py |-> Py("nodir", <<>>, None, None), dot |-> NoDotfiles]

RECURSIVE RunSteps(_, _, _, _)
\* a loop that catches what a step raises and goes on with the next step
StepAndOn_KeepGoing(m, pl, i, bs, project, c, command, subcommand) ==
    CHOOSE r \in
        {RunSteps([ran EXCEPT !.ret = "ok", !.done = @ + 1], pl, i + 1, bs) :
            ran \in {run_step(PostInitBackend(m, project), pl,
                              project, c, command, subcommand, bs[i])}} : TRUE

\* lines 244-246 for step i, the project being constructed: the step runs
\* and, unless it raised, the loop goes on from the state ran it has left
StepAndOn(m, pl, i, bs, project, c, command, subcommand) ==
    CHOOSE r \in
        {IF ran.ret # "ok" THEN ran
         ELSE RunSteps([ran EXCEPT !.done = @ + 1], pl, i + 1, bs) :
            ran \in {run_step(PostInitBackend(m, project), pl,
                              project, c, command, subcommand, bs[i])}} : TRUE

\* a loop that takes the first three segments of a longer step
RunSteps_FirstThree(m, pl, i, bs) ==
    IF i > Len(Get(pl.steps)) \/ m.ret # "ok" THEN m
    ELSE LET step  == Get(pl.steps)[i]
             parts == Split(step, ":")
         IN  IF Len(parts) < 2
             THEN [Raise(m, "ValueError", 0) EXCEPT !.msg = step]
             ELSE LET component  == parts[1]
                      command    == parts[2]
                      subcommand == IF Len(parts) >= 3 THEN Some(parts[3])
                                    ELSE None
                      c          == Component(component)
                      project    == ProjectPostInit(c.tree, c.toml, c.py,
                                                    m.envs)
                  IN  IF project.state # "ok" THEN Raise(m, project.err, 0)
                      ELSE StepAndOn(m, pl, i, bs, project, c, command,
                                     subcommand)

\* the loop of Pipeline.run from step i on; bs[i] is what the backends do
\* during step i
RunSteps(m, pl, i, bs) ==
    IF i > Len(Get(pl.steps)) \/ m.ret # "ok" THEN m
    ELSE LET step  == Get(pl.steps)[i]
             parts == Split(step, ":")
         IN  IF Len(parts) \notin {2, 3}
             THEN [Raise(m, "ValueError", 0) EXCEPT !.msg = step]
             ELSE LET component  == parts[1]
                      command    == parts[2]
                      subcommand == IF Len(parts) = 3 THEN Some(parts[3])
                                    ELSE None
                      c          == Component(component)
                      project    == ProjectPostInit(c.tree, c.toml, c.py,
                                                    m.envs)
                  IN  IF project.state # "ok" THEN Raise(m, project.err, 0)
                      ELSE StepAndOn(m, pl, i, bs, project, c, command,
                                     subcommand)

\* a run that loads the file once the steps are through
PipelineRunBody_LoadLast(m, pl, dot, env, bs) ==
    CHOOSE r \in {IF ran.ret # "ok" THEN ran
                  ELSE load_dotenv(ran, "pipeline", dot, env) :
                     ran \in {RunSteps(m, pl, 1, bs)}} : TRUE

\* Pipeline.run(env)
PipelineRunBody(m, pl, dot, env, bs) ==
    RunSteps(load_dotenv(m, "pipeline", dot, env), pl, 1, bs)

\* Pipeline(path)
PipelineConstruct ==
    /\ pipeline.state = "none"
    /\ pipeline' = PipelinePostInit(pipefile)
    /\ last' = [NoCall EXCEPT !.op = "construct", !.ret = pipeline'.err,
                              !.ld0 = osenv[S_ld_var],
                              !.envs0 = envs, !.pkgs0 = pkgs]
    /\ UNCHANGED <<tree, poetryToml, pyproject, dotfiles, osenv, envs, pkgs,
                   cache, proj, listing, pipefile, nruns, manifest,
                   procs>>

StepOutcomes ==
    {AllFine, [AllFine EXCEPT !.install = 1], [AllFine EXCEPT !.run = 3]}

\* pipeline.run(env)
PipelineRun ==
    /\ pipeline.state = "ok"
    /\ nruns < MaxRuns
    /\ \E env \in {None, Some("other")}, bs \in [1..MaxSteps -> StepOutcomes] :
          \E m \in {PipelineRunBody(Start, pipeline, dotfiles, env, bs)} :
              Finish(m, "pipeline", FALSE, env)
    /\ nruns' = nruns + 1
    /\ UNCHANGED <<proj, pipeline>>

Steps ==
    {<<"a", ":", "build">>, <<"b", ":", "deploy", ":", "prod">>,
     <<"b", ":", "build", ":", "prod">>, <<"a">>,
     <<"a", ":", "b", ":", "c", ":", "d">>, <<"c", ":", "build">>}

TypeoTables ==
    {[hasScripts |-> FALSE, scripts |-> {}],
     [hasScripts |-> TRUE, scripts |-> {}],
     [hasScripts |-> TRUE, scripts |-> {<<"build">>}]}

Pipefiles ==
    {[shape |-> sh, steps |-> None, typeo |-> None] : sh \in {"nodir", "nofile"}}
    \cup [shape : {"ok"},
          steps : {None} \cup {Some(q) : q \in UNION {[1..n -> Steps] :
                                                        n \in 0..MaxSteps}},
          typeo : {None} \cup {Some(c) : c \in TypeoTables}]

InitPipeline ==
    /\ tree = <<NoDir, NoDir>>
    /\ poetryToml = None
    /\ pyproject = Py("nopoetry", <<>>, None, None)
    /\ dotfiles \in Dotfiles
    /\ osenv \in {[NoOsEnv EXCEPT !["CONDA_ROOT"] = root] :
                     root \in {None, Some(S_conda)}}
    /\ envs = {}
    /\ pkgs = {}
    /\ cache = {}
    /\ proj = NoProject
    /\ listing = {}
    /\ pipefile \in Pipefiles
    /\ pipeline = NoPipeline
    /\ last = NoCall
    /\ nruns = 0
    /\ manifest = NoManifest
    /\ procs = NoProcs

NextPipeline == PipelineConstruct \/ PipelineRun

SpecPipeline == InitPipeline /\ [][NextPipeline]_vars

(***************************************************************************)
(* env.py: contains(project) against what the backend lists.  listing is   *)
(* the set of package names the backend reports for the environment, each  *)
(* in the spelling the backend gives it.  (In the lifecycle above, pkgs    *)
(* stands for a listing in the spelling contains() looks for.)             *)
(***************************************************************************)
\* str.replace(a, b) for single characters a, b
Replace(s, a, b) == [i \in 1..Len(s) |-> IF s[i] = a THEN b ELSE s[i]]

\* CondaEnvironment.contains, lines 302-305: the name with _ turned into -
\* is searched at the start of a line of conda list, followed by a space
CondaListSearch(project_name, package_list) ==
    LET name == Replace(project_name, "_", "-")
    IN  \E pkg \in package_list : pkg = name

\* PoetryEnvironment.contains, lines 100-101: the name with - turned into _
\* is looked up by find_distribution, which compares names with their
\* separators made alike
PoetryFindDistribution(project_name, package_list) ==
    LET name == Replace(project_name, "-", "_")
    IN  \E pkg \in package_list : Replace(pkg, "-", "_") = name

\* env.contains(project) on an environment that is there
Contains ==
    /\ last.op = "none"
    /\ \E ans \in {IF EnvClass(poetryToml) = "Conda"
                    THEN CondaListSearch(pyproject.name, listing)
                    ELSE PoetryFindDistribution(pyproject.name, listing)} :
          last' = [NoCall EXCEPT
                     !.op = "contains",
                     !.calls = <<[call |-> "contains", ans |-> ans]>>]
    /\ UNCHANGED <<tree, poetryToml, pyproject, dotfiles, osenv, envs, pkgs,
                   cache, proj, listing, pipefile, pipeline, nruns, manifest,
                   procs>>

\* the project names of src/tests/conftest.py and the names a backend may
\* list
S_testlib   == <<"testlib">>
S_test_lib  == <<"test", "_", "lib">>
S_test_dlib == <<"test", "-", "lib">>
S_requests  == <<"requests">>
ProjectNames == {S_testlib, S_test_dlib, S_test_lib}
Listed ==
    {S_testlib, S_test_dlib, S_test_lib, S_requests,
     <<"test", "-", "lib", "-", "x">>}

InitContains ==
    /\ tree = <<NoDir>>
    /\ poetryToml \in {None, TomlShared}
    /\ \E n \in ProjectNames : pyproject = Py("ok", n, None, None)
    /\ dotfiles = NoDotfiles
    /\ osenv = NoOsEnv
    /\ envs = {}
    /\ pkgs = {}
    /\ cache = {}
    /\ proj = NoProject
    /\ listing \in SUBSET Listed
    /\ pipefile = NoPipefile
    /\ pipeline = NoPipeline
    /\ last = NoCall
    /\ nruns = 0
    /\ manifest = NoManifest
    /\ procs = NoProcs

NextContains == Contains

SpecContains == InitContains /\ [][NextContains]_vars

(***************************************************************************)
(* project.py: the manifest an instance holds.  toml.load gives a dict of  *)
(* dicts, and Python's dict.copy() copies one level: the copy is a new     *)
(* object whose values are the same objects.  manifest is                  *)
(*   heap    the objects, a sequence; object 1 is self._config.  An object *)
(*           maps each key to Absent, to a value or to another object,     *)
(*   held    the object the caller got from config or pinto_config last,   *)
(*   writes  how many times the caller has changed an object,              *)
(*   atLoad  what config, pinto_config, steps and typeo_config returned    *)
(*           right after construction.                                     *)
(* The file is pyproject (tool.poetry.name, tool.pinto.cuda-version) with  *)
(* the keys of pipefile (tool.pinto.steps, tool.typeo): ProjectBase reads  *)
(* one pyproject.toml whichever class the instance has.  A value is a      *)
(* sequence of strings (a string is one of length 1, a list of steps one   *)
(* of any length).                                                         *)
(***************************************************************************)
Keys ==
    {"tool", "poetry", "pinto", "typeo", "name", "cuda-version", "steps",
     "scripts"}
Absent   == [t |-> "absent", id |-> 0, v |-> <<>>]
Val(v)   == [t |-> "val", id |-> 0, v |-> v]
Ref(id)  == [t |-> "ref", id |-> id, v |-> <<>>]
EmptyDict == [k \in Keys |-> Absent]

\* the keys of a script table, which holds one command at most here
Commands(scripts) ==
    IF scripts = {} THEN <<>> ELSE <<CHOOSE c \in scripts : TRUE>>

\* toml.load(f), lines 24-25: objects 1 (the document), 2 (tool),
\* 3 (tool.poetry), 4 (tool.pinto) and 5 (tool.typeo, when declared)
TomlLoad(py, file) ==
    <<[EmptyDict EXCEPT !["tool"] = Ref(2)],
      [EmptyDict EXCEPT !["poetry"] = Ref(3), !["pinto"] = Ref(4),
                        !["typeo"] = IF IsSome(file.typeo) THEN Ref(5)
                                     ELSE Absent],
      [EmptyDict EXCEPT !["name"] = Val(<<py.name>>)],
      [EmptyDict EXCEPT
          !["cuda-version"] = IF IsSome(py.cuda) THEN Val(<<Get(py.cuda).str>>)
                              ELSE Absent,
          !["steps"] = IF IsSome(file.steps) THEN Val(Get(file.steps))
                       ELSE Absent],
      [EmptyDict EXCEPT
          !["scripts"] = IF IsSome(file.typeo) /\ Get(file.typeo).hasScripts
                         THEN Val(Commands(Get(file.typeo).scripts))
                         ELSE Absent]>>

\* the keys an object has
Present(h, o) == {k \in Keys : h[o][k].t # "absent"}

\* the value of an object with all it refers to, as the set of its
\* <<path, value>> pairs; a table is marked by the value {}
RECURSIVE Flat(_, _, _)
Flat(h, o, prefix) ==
    UNION {IF h[o][k].t = "ref"
           THEN {<<prefix \o <<k>>, <<<<"{}">>>>>>}
                    \cup Flat(h, h[o][k].id, prefix \o <<k>>)
           ELSE {<<prefix \o <<k>>, h[o][k].v>>} : k \in Present(h, o)}

\* d[k1][k2]...: the entry a chain of subscripts ends at, Absent when one
\* of them raises
RECURSIVE Walk(_, _, _)
Walk(h, o, path) ==
    IF Len(path) = 1 THEN h[o][path[1]]
    ELSE IF h[o][path[1]].t = "ref"
    THEN Walk(h, h[o][path[1]].id, Tail(path))
    ELSE Absent

KeyError == {<<<<"!">>, <<<<"KeyError">>>>>>}

\* what self.config[k1][k2]... gives: config copies the document, whose
\* values are the objects of self._config
Subscript(h, path) ==
    LET e == Walk(h, 1, path)
    IN  IF e.t = "absent" THEN KeyError
        ELSE IF e.t = "val" THEN {<<<<>>, e.v>>}
        ELSE Flat(h, e.id, <<>>)

\* ProjectBase.config
config(h) == Flat(h, 1, <<>>)
\* Project.pinto_config: {} on KeyError
pinto_config(h) ==
    IF Subscript(h, <<"tool", "pinto">>) = KeyError THEN {}
    ELSE Subscript(h, <<"tool", "pinto">>)
\* Pipeline.steps
steps(h) == Subscript(h, <<"tool", "pinto", "steps">>)
\* Pipeline.typeo_config
typeo_config(h) == Subscript(h, <<"tool", "typeo">>)

\* what the four properties return
Reads(h) ==
    [config |-> config(h), pinto_config |-> pinto_config(h),
     steps |-> steps(h), typeo_config |-> typeo_config(h)]

ManifestFrame ==
    <<tree, poetryToml, dotfiles, osenv, envs, pkgs, cache, proj, listing,
      pipeline, last, nruns, procs>>

\* ProjectBase.__post_init__, lines 22-25
ManifestLoad ==
    /\ manifest.heap = <<>>
    /\ \E h \in {TomlLoad(pyproject, pipefile)} :
          manifest' = [heap |-> h, held |-> None, writes |-> 0,
                       atLoad |-> Reads(h)]
    /\ UNCHANGED <<ManifestFrame, pyproject, pipefile>>

\* the file is written again after the instance was constructed
RewriteFile ==
    /\ manifest.heap # <<>>
    /\ \/ /\ pyproject.name # S_widgets
          /\ pyproject' = [pyproject EXCEPT !.name = S_widgets]
          /\ UNCHANGED pipefile
       \/ /\ pipefile.steps # Some(<<>>)
          /\ pipefile' = [pipefile EXCEPT !.steps = Some(<<>>)]
          /\ UNCHANGED pyproject
    /\ UNCHANGED <<ManifestFrame, manifest>>

\* the caller reads config: self._config.copy(), a new object with the
\* entries of object 1
CopyConfig(mf) ==
    [mf EXCEPT !.heap = Append(@, mf.heap[1]),
               !.held = Some(Len(mf.heap) + 1)]

GetConfig ==
    /\ manifest.heap # <<>>
    /\ Len(manifest.heap) < MaxObjects
    /\ manifest' = CopyConfig(manifest)
    /\ UNCHANGED <<ManifestFrame, pyproject, pipefile>>

\* the caller reads pinto_config: self.config["tool"]["pinto"].copy(), or
\* a new {} on KeyError
GetPintoConfig ==
    /\ manifest.heap # <<>>
    /\ Len(manifest.heap) < MaxObjects
    /\ \E e \in {Walk(manifest.heap, 1, <<"tool", "pinto">>)} :
          /\ e.t # "val"
          /\ manifest' =
                [manifest EXCEPT
                    !.heap = Append(@, IF e.t = "ref" THEN @[e.id]
                                       ELSE EmptyDict),
                    !.held = Some(Len(manifest.heap) + 1)]
    /\ UNCHANGED <<ManifestFrame, pyproject, pipefile>>

\* the caller changes the object it holds, d[k] = "x" or d.pop(k), or a
\* table inside it, d[j][k] = "x" or d[j].pop(k)
Mutate ==
    /\ IsSome(manifest.held)
    /\ manifest.writes < MaxWrites
    /\ \E o \in {Get(manifest.held)}
               \cup {manifest.heap[Get(manifest.held)][j].id :
                       j \in {i \in Keys :
                                manifest.heap[Get(manifest.held)][i].t
                                    = "ref"}} :
          \E k \in Present(manifest.heap, o),
             new \in {Absent, Val(<<<<"x">>>>)} :
             manifest' = [manifest EXCEPT !.heap[o][k] = new,
                                          !.writes = @ + 1]
    /\ UNCHANGED <<ManifestFrame, pyproject, pipefile>>

InitManifest ==
    /\ tree = <<NoDir>>
    /\ poetryToml = None
    /\ \E cuda \in {None, Some([isdir |-> FALSE, str |-> <<"11", ".", "2">>])} :
          pyproject = Py("ok", S_bar, None, cuda)
    /\ dotfiles = NoDotfiles
    /\ osenv = NoOsEnv
    /\ envs = {}
    /\ pkgs = {}
    /\ cache = {}
    /\ proj = NoProject
    /\ listing = {}
    /\ pipefile \in
          {[shape |-> "ok", steps |-> None, typeo |-> None],
           [shape |-> "ok", steps |-> Some(<<<<"a", ":", "build">>>>),
            typeo |-> Some([hasScripts |-> TRUE,
                            scripts |-> {<<"build">>}])]}
    /\ pipeline = NoPipeline
    /\ last = NoCall
    /\ nruns = 0
    /\ manifest = NoManifest
    /\ procs = NoProcs

NextManifest ==
    ManifestLoad \/ RewriteFile \/ GetConfig \/ GetPintoConfig \/ Mutate

SpecManifest == InitManifest /\ [][NextManifest]_vars

(***************************************************************************)
(* Claims about Project.install and Project.run, checked under Spec        *)
(***************************************************************************)
Pos(c, name) == {i \in DOMAIN c : c[i].call = name}
Count(c, name) == Cardinality(Pos(c, name))
\* every call of a comes before every call of b
Before(c, a, b) == \A i \in Pos(c, a), j \in Pos(c, b) : i < j
\* the answers exists() and contains() gave when first asked
Answered(c, name, ans) ==
    /\ Pos(c, name) # {}
    /\ c[CHOOSE i \in Pos(c, name) : \A j \in Pos(c, name) : i <= j].ans = ans

\* C1: after Project.run on a project whose manifest sets cuda-version,
\* whether the child succeeded or failed, LD_LIBRARY_PATH of the parent
\* process is what it was before the call (unset if it was unset).
C1_LdLibraryPathRestored ==
    (last.op = "run" /\ IsSome(pyproject.cuda))
    => osenv[S_ld_var] = last.ld0

\* the state of the backend when the last call began
Existed == proj.envName \in last.envs0
Held    == proj.envName \in last.pkgs0

\* C2: Project.run on a project whose environment does not exist, or
\* exists but does not contain the project, creates the environment (if
\* absent) and installs the project before it executes the command, and
\* when it returns the environment exists and contains the project; when
\* the environment already exists and contains the project, Project.run
\* performs no create and no install.
C2_LazyBootstrap ==
    last.op = "run" =>
        LET c == last.calls
        IN  /\ ~Existed =>
                /\ Pos(c, "run") # {} =>
                      Pos(c, "create") # {} /\ Pos(c, "install") # {}
                /\ Before(c, "create", "install")
                /\ Before(c, "install", "run")
            /\ (Existed /\ ~Held) =>
                /\ Pos(c, "run") # {} => Pos(c, "install") # {}
                /\ Before(c, "install", "run")
                /\ Pos(c, "create") = {}
            /\ last.ret = "ok" =>
                /\ Count(c, "run") = 1
                /\ proj.envName \in envs
                /\ proj.envName \in pkgs
            /\ (Existed /\ Held) =>
                Pos(c, "create") = {} /\ Pos(c, "install") = {}

\* what holds of Project.run whatever the backend answers: it bootstraps
\* exactly when exists() or contains() answers no
RunFollowsAnswers ==
    last.op = "run" =>
        LET c == last.calls
        IN  /\ (Answered(c, "exists", FALSE)
                    \/ Answered(c, "contains", FALSE))
                => /\ Pos(c, "run") # {} => Pos(c, "install") # {}
                   /\ Before(c, "install", "run")
                   /\ Before(c, "create", "install")
            /\ (Answered(c, "exists", TRUE) /\ Answered(c, "contains", TRUE))
                => Pos(c, "create") = {} /\ Pos(c, "install") = {}

\* C3: Project.install(force, extras) calls the environment's install
\* exactly once when the environment does not contain the project (for
\* either force), exactly once when it contains the project and force is
\* true, and zero times when it contains the project and force is false;
\* it calls create() only when exists() is false, and always before
\* contains() is evaluated.
C3_InstallThreeWay ==
    last.op = "install" =>
        LET c == last.calls
        IN  /\ (Pos(c, "contains") # {} /\ last.ret = "ok") =>
                Count(c, "install") = (IF Held /\ ~last.force THEN 0 ELSE 1)
            /\ Pos(c, "create") # {} => Answered(c, "exists", FALSE)
            /\ Before(c, "create", "contains")

\* what holds of Project.install whatever the backend answers: the branch
\* taken follows the answer of contains() and force
InstallFollowsAnswers ==
    last.op = "install" =>
        LET c == last.calls
        IN  /\ Answered(c, "contains", FALSE) => Count(c, "install") = 1
            /\ (Answered(c, "contains", TRUE) /\ last.force)
                => Count(c, "install") = 1
            /\ (Answered(c, "contains", TRUE) /\ ~last.force)
                => Count(c, "install") = 0
            /\ Pos(c, "contains") = {} => Count(c, "install") = 0
            /\ Count(c, "exists") = 1 /\ c[1].call = "exists"
            /\ Pos(c, "create") # {} <=> Answered(c, "exists", FALSE)
            /\ Before(c, "create", "contains")
            /\ Before(c, "contains", "install")

C13_CreateIdempotent ==
    /\ []((last.op = "create" /\ proj.kind = "Conda") =>
            /\ Existed => /\ last.ret = "ok"
                          /\ last.backend = <<>>
                          /\ envs = last.envs0
            /\ last.ret = "ok" => proj.envName \in envs)
    /\ [][(/\ last.op = "create" /\ last.ret = "ok"
           /\ proj.kind = "Conda" /\ last'.op = "create")
          => /\ last'.ret = "ok"
             /\ last'.backend = <<>>
             /\ envs' = envs]_vars

\* create() on an environment that an earlier create() cloned
C13_Witness ==
    /\ last.op = "create"
    /\ proj.kind = "Conda"
    /\ proj.envName = <<"team", "-", "bar">>
    /\ Existed
    /\ last.ret = "ok"

HasCmd(cmd) == \E i \in DOMAIN last.backend : last.backend[i].cmd = cmd
\* create() on a Shared environment that is not there and whose base is a
\* declaration file
CreateFromFile ==
    /\ last.op = "create"
    /\ proj.kind = "Conda"
    /\ proj.base_env.suffix \in {"yaml", "yml"}
    /\ ~Existed

\* C14: in Shared create() with a declaration file as base and a target
\* that does not exist, the environment the file names is created from the
\* file only if it does not exist yet, the clone into the target is made
\* exactly when the declared name differs from the target's, and whenever
\* create() succeeds the target exists.
C14_CreateFromFile ==
    CreateFromFile =>
        LET declared == FileContent(tree, proj.base_env)
        IN  /\ HasCmd("env create") => declared \notin last.envs0
            /\ declared = proj.envName => ~HasCmd("clone")
            /\ HasCmd("clone") => declared \in envs
            /\ last.ret = "ok" =>
                /\ HasCmd("clone") <=> declared # proj.envName
                /\ declared \in envs
                /\ proj.envName \in envs

\* the file's environment was there already and the target is cloned from it
C14_Witness ==
    /\ CreateFromFile
    /\ last.ret = "ok"
    /\ FileContent(tree, proj.base_env) = S_foo_base
    /\ S_foo_base \in last.envs0
    /\ last.backend = <<[cmd |-> "clone", name |-> <<"foo", "-", "bar">>]>>
    /\ <<"foo", "-", "bar">> \in envs

\* create() on a Shared environment that is not there, whose base_env is a
\* name no environment has
CreateFromMissingName ==
    /\ last.op = "create"
    /\ proj.kind = "Conda"
    /\ proj.base_env.suffix = ""
    /\ ~Existed
    /\ proj.base_env.str \notin last.envs0

\* C15: Shared create() with a name as base_env and a target that does not
\* exist raises a ValueError naming the base environment when no
\* environment has that name, and creates and clones nothing.
C15_NoCloneSource ==
    CreateFromMissingName =>
        /\ last.ret = "ValueError"
        /\ last.msg = proj.base_env.str
        /\ last.backend = <<>>
        /\ envs = last.envs0
        /\ pkgs = last.pkgs0

C15_Witness ==
    /\ CreateFromMissingName
    /\ proj.base_env.str = S_team_base
    /\ proj.envName = <<"team", "-", "bar">>
    /\ last.ret = "ValueError"

\* Project.install has ended well on a Shared environment and has called
\* the environment's install()
SharedInstalled ==
    /\ last.op = "install"
    /\ last.ret = "ok"
    /\ proj.kind = "Conda"
    /\ Count(last.calls, "install") = 1

\* C17: after Shared install() has returned successfully the cached
\* package listing of the environment is gone, so that a contains() made
\* next answers true, whether CONDA_ROOT is set or not.
C17_CacheInvalidated ==
    SharedInstalled =>
        /\ \A yes \in BOOLEAN : <<proj.envName, yes>> \notin cache
        /\ VenvContains(Start, proj).ret = "ok"
        /\ VenvContains(Start, proj).ans

\* install() with CONDA_ROOT unset
C17_RootUnset ==
    /\ SharedInstalled
    /\ ~IsSome(osenv["CONDA_ROOT"])

\* C18: for both backends Project.run, which hands back what
\* Environment.run returns, returns the child's standard output as text: a
\* script that prints one line gives a value whose content is that line.
C18_RunReturnsStdout ==
    (last.op = "run" /\ last.ret = "ok") => last.returned = Some(S_hear)

\* the script has run and has written its line
C18_ScriptRan ==
    /\ last.op = "run"
    /\ last.ret = "ok"
    /\ last.argv[Len(last.argv)] = S_cmd
    /\ last.printed = <<S_hear>>

(***************************************************************************)
(* Claims about resolution, checked under SpecResolve                      *)
(***************************************************************************)
HasFile(i) == IsSome(tree[i].yaml) \/ IsSome(tree[i].yml)
AnyFile == \E i \in 1..Len(tree) : HasFile(i)
\* the nearest directory holding a declaration file, and the name it declares
Nearest == CHOOSE i \in 1..Len(tree) :
               HasFile(i) /\ \A j \in 1..(i - 1) : ~HasFile(j)
NearestDeclared ==
    IF IsSome(tree[Nearest].yaml) THEN Get(tree[Nearest].yaml)
    ELSE Get(tree[Nearest].yml)
EndsInDashBase(s) ==
    Len(s) >= 2 /\ SubSeq(s, Len(s) - 1, Len(s)) = <<"-", "base">>
Expected(declared, pname) ==
    IF EndsInDashBase(declared)
    THEN SubSeq(declared, 1, Len(declared) - 1) \o pname
    ELSE declared

Constructing == last.op = "construct"
\* a project with a name whose poetry.toml selects the Shared backend
SharedProject ==
    /\ Constructing
    /\ pyproject.shape = "ok"
    /\ poetryToml = TomlShared
SharedNoBaseEnv == SharedProject /\ ~IsSome(pyproject.base_env)

\* s with its i-th element replaced by the name pname
SubstAt(s, i, pname) == SubSeq(s, 1, i - 1) \o pname \o SubSeq(s, i + 1, Len(s))

\* C5: a Shared project with no base_env whose nearest declaration file
\* declares a name ending in -base resolves to that name with the trailing
\* base replaced by the project's name, in an ancestor directory and in the
\* project's own directory alike; a base that is not at the end of the
\* declared name is never replaced.
C5_SuffixAtAnyLevel ==
    (SharedNoBaseEnv /\ AnyFile /\ NearestDeclared # <<>>)
    => /\ proj.state = "ok"
       /\ EndsInDashBase(NearestDeclared)
            => proj.envName = Expected(NearestDeclared, pyproject.name)
       /\ \A i \in 1..(Len(NearestDeclared) - 1) :
             NearestDeclared[i] = "base"
             => proj.envName # SubstAt(NearestDeclared, i, pyproject.name)

\* C6: a Shared project with no base_env whose nearest declaration file
\* declares a name not ending in -base resolves to the declared name when
\* the file is in the project's own directory and to the project's own name
\* when it is in an ancestor directory.
C6_VerbatimOrProjectName ==
    (SharedNoBaseEnv /\ AnyFile /\ NearestDeclared # <<>>
        /\ ~EndsInDashBase(NearestDeclared))
    => /\ proj.state = "ok"
       /\ Nearest = 1 => proj.envName = NearestDeclared
       /\ Nearest > 1 => proj.envName = pyproject.name

C6_Witness ==
    /\ SharedNoBaseEnv /\ AnyFile
    /\ Nearest = 3
    /\ NearestDeclared = S_env
    /\ proj.state = "ok"
    /\ proj.envName = S_bar

\* C7: the search examines the project directory, then each ancestor in
\* order up to and including the root, stops at the nearest directory
\* holding environment.yaml or environment.yml and uses the file there.
C7_NearestWins ==
    SharedNoBaseEnv
    => /\ proj.searched
       /\ proj.visited =
             [i \in 1..(IF AnyFile THEN Nearest ELSE Len(tree)) |-> i]
       /\ (AnyFile /\ proj.state = "ok") =>
             /\ proj.base_env.dir = Nearest
             /\ proj.base_env.suffix \in {"yaml", "yml"}
             /\ proj.base_env.suffix = "yaml" => IsSome(tree[Nearest].yaml)
             /\ proj.base_env.suffix = "yml" => IsSome(tree[Nearest].yml)

C7_Witness ==
    /\ SharedNoBaseEnv
    /\ Len(tree) = 3
    /\ ~HasFile(1) /\ ~HasFile(2)
    /\ tree[3].yaml = Some(S_foo_base) /\ tree[3].yml = None
    /\ proj.state = "ok"
    /\ proj.visited = <<1, 2, 3>>
    /\ proj.base_env.dir = 3

\* C8: a Shared project with no base_env and no declaration file from the
\* project directory up to the root fails to construct with a ValueError
\* naming the project path, and no environment name is resolved.
C8_NoDeclarationFails ==
    (SharedNoBaseEnv /\ ~AnyFile)
    => /\ proj.state = "failed"
       /\ proj.err = "ValueError"
       /\ proj.msg = DirPath(tree, 1)
       /\ proj.envName = <<>>

C8_Witness ==
    /\ SharedNoBaseEnv /\ ~AnyFile
    /\ Len(tree) = 3
    /\ proj.state = "failed"
    /\ proj.err = "ValueError"

\* C9: the environment is Shared exactly when poetry.toml is there and sets
\* virtualenvs.create to false; with the file absent, without a virtualenvs
\* table or a create key, or with create true, it is Isolated.
C9_BackendSelection ==
    (Constructing /\ pyproject.shape \in {"ok", "notool", "noname"})
    => /\ proj.kind \in {"Conda", "Poetry"}
       /\ proj.kind = "Conda" <=>
             /\ IsSome(poetryToml)
             /\ Get(poetryToml).hasVirtualenvs
             /\ Get(poetryToml).hasCreate
             /\ ~Get(poetryToml).create

C9_Witness ==
    /\ Constructing
    /\ poetryToml = Toml(TRUE, FALSE, FALSE)
    /\ proj.state = "ok"
    /\ proj.kind = "Poetry"

\* C10: a base_env that is a plain name is taken literally, with suffix
\* normalization and without a directory search: base_env team-base for
\* project widgets resolves to (Shared, team-widgets).
C10_PlainBaseEnv ==
    (SharedProject /\ IsSome(pyproject.base_env)
        /\ Suffix(Get(pyproject.base_env))
             \notin {<<".", "yaml">>, <<".", "yml">>})
    => /\ proj.state = "ok"
       /\ proj.kind = "Conda"
       /\ ~proj.searched /\ proj.visited = <<>>
       /\ proj.envName = Expected(Get(pyproject.base_env), pyproject.name)
       /\ (pyproject.base_env = Some(S_team_base)
             /\ pyproject.name = S_widgets)
          => proj.envName = <<"team", "-", "widgets">>

C10_Witness ==
    /\ SharedProject
    /\ pyproject.base_env = Some(S_team_base)
    /\ pyproject.name = S_widgets
    /\ ~AnyFile
    /\ proj.state = "ok"
    /\ proj.envName = <<"team", "-", "widgets">>

\* C11: when the manifest's base_env is a path ending in .yaml or .yml,
\* the name field of that file is read and the Shared environment is named
\* by it after suffix normalization; construction succeeds whenever the
\* file exists and has a name field.
C11_BaseEnvFile ==
    (SharedProject /\ IsSome(pyproject.base_env)
        /\ Suffix(Get(pyproject.base_env)) \in {<<".", "yaml">>, <<".", "yml">>}
        /\ IsSome(ManifestFile(Get(pyproject.base_env)))
        /\ Get(ManifestFile(Get(pyproject.base_env))) # <<>>)
    => /\ proj.state = "ok"
       /\ proj.kind = "Conda"
       /\ proj.envName = Expected(Get(ManifestFile(Get(pyproject.base_env))),
                                  pyproject.name)

(***************************************************************************)
(* Claims settled under SpecPipeline                                       *)
(***************************************************************************)
IsStepArgv(a) == Len(a) = 3 /\ a[2] = S_typeo
StepArgv == SelectSeq(last.argv, IsStepArgv)
StepParts(i) == Split(Get(pipeline.steps)[i], ":")
InScriptTable(command) ==
    /\ Get(pipeline.typeo).hasScripts
    /\ command \in Get(pipeline.typeo).scripts

\* C4: for every step a pipeline has run, the reference that follows
\* --typeo is <pipeline-path>:<command>, followed by :<subcommand> when a
\* subcommand is given, if the command is a key of the script table, and
\* <pipeline-path>::<subcommand> otherwise.
C4_TypeoReference ==
    last.op = "pipeline" =>
        \A i \in 1..Len(StepArgv) :
            LET parts == StepParts(i)
                ref   == StepArgv[i][3]
            IN  IF InScriptTable(parts[2])
                THEN ref = S_pipe \o <<":">> \o parts[2]
                            \o (IF Len(parts) = 3 THEN <<":">> \o parts[3]
                                ELSE <<>>)
                ELSE Len(parts) = 3 => ref = S_pipe \o <<":", ":">> \o parts[3]

\* the steps a:build and b:deploy:prod have both run against a table that
\* has build and not deploy
C4_Example ==
    /\ last.op = "pipeline"
    /\ last.done = 2
    /\ Get(pipeline.steps) = <<<<"a", ":", "build">>,
                               <<"b", ":", "deploy", ":", "prod">>>>
    /\ Get(pipeline.typeo) = [hasScripts |-> TRUE, scripts |-> {<<"build">>}]

\* C20: after a Shared environment's run() returns or raises, a non-zero exit
\* of the child included, the parent's LD_LIBRARY_PATH is what it was just
\* before that call, and a variable that was unset is unset afterwards.
C20_SharedRunRestores ==
    /\ Len(last.leave) = Len(last.entry)
    /\ \A i \in 1..Len(last.entry) : last.leave[i] = last.entry[i]
    /\ (last.op = "run" /\ last.entry # <<>>) =>
           osenv[S_ld_var] = last.entry[Len(last.entry)]

\* the child has seen the lengthened path and has exited with 3
C20_Witness ==
    /\ last.op = "run"
    /\ last.ret = "SystemExit"
    /\ last.entry # <<>>
    /\ IsSome(last.entry[Len(last.entry)])
    /\ last.child[Len(last.child)][S_ld_var] =
           Some(Get(last.entry[Len(last.entry)]) \o <<":">>
                \o S_conda \o S_lib)
    /\ osenv[S_ld_var] = last.entry[Len(last.entry)]

\* the variable was unset when a Shared run() began and its child failed
C20_UnsetStaysUnset ==
    ~(/\ last.op = "run" /\ last.ret = "SystemExit"
      /\ last.entry # <<>> /\ last.entry[Len(last.entry)] = None
      /\ osenv[S_ld_var] # None)

\* C19: for both backends, when the child run() has started exits with a
\* code c other than 0, the call ends in SystemExit carrying c, which
\* Project.run and Pipeline.run let through as it is; when the child exits
\* with 0 run() returns and no SystemExit is seen.
C19_ExitCodePropagates ==
    (last.op \in {"run", "pipeline"} /\ last.exit # <<>>) =>
        LET c == last.exit[Len(last.exit)]
        IN  /\ c # 0 => last.ret = "SystemExit" /\ last.code = c
            /\ c = 0 => last.ret # "SystemExit"
            /\ \A i \in 1..(Len(last.exit) - 1) : last.exit[i] = 0

\* the second step's command has exited with 3 in a pipeline
C19_Witness ==
    /\ last.op = "pipeline"
    /\ last.done = 1
    /\ last.exit[Len(last.exit)] = 3
    /\ last.ret = "SystemExit"
    /\ last.code = 3

(***************************************************************************)
(* Claims about contains(project), checked under SpecContains              *)
(***************************************************************************)
\* the project's package is among those listed, in either spelling
Installed ==
    \E pkg \in listing :
        Replace(pkg, "_", "-") = Replace(pyproject.name, "_", "-")

\* C16: for both backends contains(project) returns true whenever the
\* project's package is installed, whether the project's name is written
\* with hyphens or underscores and whichever of the two spellings the
\* backend lists the package under.
C16_SeparatorsAlike ==
    (last.op = "contains" /\ Installed) => last.calls[1].ans

\* a project written test-lib that the backend lists as test_lib
C16_ListedWithUnderscore ==
    /\ last.op = "contains"
    /\ pyproject.name = S_test_dlib
    /\ listing = {S_test_lib}

(***************************************************************************)
(* Claims about the library search path of the child, checked under Spec   *)
(***************************************************************************)
\* the entries of a search path
Entries(path) ==
    LET parts == Split(path, ":") IN {parts[i] : i \in DOMAIN parts}

\* the child a Shared project's run() has started for the command, i.e.
\* the last child process of a call of Project.run that got that far
SharedCommandRan ==
    /\ last.op = "run"
    /\ proj.kind = "Conda"
    /\ last.argv # <<>>
    /\ last.argv[Len(last.argv)] = S_cmd

\* LD_LIBRARY_PATH as that child has seen it
ChildLd == last.child[Len(last.child)][S_ld_var]

\* C21: for the duration of every Shared run() the LD_LIBRARY_PATH the child
\* sees includes <env_root>/lib of the environment the command runs in.
C21_ChildSeesEnvLib ==
    (SharedCommandRan /\ IsSome(osenv["CONDA_ROOT"])) =>
        /\ IsSome(ChildLd)
        /\ env_root(osenv, proj.envName) \o S_lib \in Entries(Get(ChildLd))

\* a Shared command has run with CONDA_ROOT, CONDA_PREFIX and the parent's
\* LD_LIBRARY_PATH all set
C21_PathWasSet ==
    /\ SharedCommandRan
    /\ IsSome(osenv["CONDA_ROOT"])
    /\ IsSome(osenv["CONDA_PREFIX"])
    /\ IsSome(last.entry[Len(last.entry)])

\* C22: the flag [tool.pinto.conda] append_base_ld_library_path governs the
\* extension: when it is true the command Project.run starts sees both
\* <env_root>/lib and <CONDA_PREFIX>/lib in LD_LIBRARY_PATH; when it is
\* false or absent and the parent has no LD_LIBRARY_PATH, the child sees
\* none.
C22_FlagGoverns ==
    (/\ SharedCommandRan
     /\ IsSome(osenv["CONDA_ROOT"])
     /\ IsSome(osenv["CONDA_PREFIX"])) =>
        /\ pyproject.append = Some(TRUE) =>
              /\ IsSome(ChildLd)
              /\ env_root(osenv, proj.envName) \o S_lib
                     \in Entries(Get(ChildLd))
              /\ Get(osenv["CONDA_PREFIX"]) \o S_lib \in Entries(Get(ChildLd))
        /\ (pyproject.append # Some(TRUE)
              /\ ~IsSome(last.entry[Len(last.entry)])) => ~IsSome(ChildLd)

\* the flag is true and the parent has no LD_LIBRARY_PATH
C22_FlagTrue ==
    /\ SharedCommandRan
    /\ IsSome(osenv["CONDA_ROOT"])
    /\ IsSome(osenv["CONDA_PREFIX"])
    /\ pyproject.append = Some(TRUE)
    /\ ~IsSome(last.entry[Len(last.entry)])

\* the command Project.run was given has been started, by either backend
CommandRan ==
    /\ last.op = "run"
    /\ last.argv # <<>>
    /\ last.argv[Len(last.argv)] = S_cmd

\* LD_LIBRARY_PATH before the call, "" when it was unset
LdBefore == IF IsSome(last.ld0) THEN Get(last.ld0) ELSE <<>>

\* the child's path starts with the cuda directory, then what was there
CudaFirst ==
    LET want == CudaPath(Get(pyproject.cuda)) \o <<":">> \o LdBefore
    IN  /\ IsSome(ChildLd)
        /\ Split(Get(ChildLd), ":")[1] = CudaPath(Get(pyproject.cuda))
        /\ Len(Get(ChildLd)) >= Len(want)
        /\ SubSeq(Get(ChildLd), 1, Len(want)) = want

\* the dotenv file the call has loaded, if it got that far and there is one
DotenvLoaded ==
    IF last.op = "run" /\ Pos(last.calls, "run") # {}
    THEN dotfiles[IF IsSome(last.env) THEN Get(last.env) ELSE ".env"]
    ELSE None

\* C23 as stated: with cuda-version set the child's LD_LIBRARY_PATH starts
\* with the directory itself or /usr/local/cuda-<value>/lib64, before all
\* entries held previously; with cuda-version not set Project.run does not
\* modify LD_LIBRARY_PATH.
C23_CudaOrUntouched ==
    /\ (CommandRan /\ IsSome(pyproject.cuda)) => CudaFirst
    /\ (last.op = "run" /\ ~IsSome(pyproject.cuda)) =>
           osenv[S_ld_var] = last.ld0

\* C23 as amended: with cuda-version not set, LD_LIBRARY_PATH is as before
\* the call, unless the process had none and the dotenv file the call has
\* loaded defines it, which then is its value.
C23_CudaOrDotenv ==
    /\ (CommandRan /\ IsSome(pyproject.cuda)) => CudaFirst
    /\ (last.op = "run" /\ ~IsSome(pyproject.cuda)) =>
           osenv[S_ld_var] =
               IF ~IsSome(last.ld0) /\ IsSome(DotenvLoaded)
               THEN Get(DotenvLoaded)[S_ld_var]
               ELSE last.ld0

\* a version number was given and the variable held a path before
C23_Witness ==
    /\ CommandRan
    /\ IsSome(pyproject.cuda)
    /\ ~Get(pyproject.cuda).isdir
    /\ IsSome(last.ld0)
    /\ Split(Get(ChildLd), ":")[1] =
           <<"/", "usr", "/", "local", "/", "cuda", "-", "11", ".", "2",
             "/", "lib64">>

(***************************************************************************)
(* Claims about Pipeline.run, checked under SpecPipeline                   *)
(***************************************************************************)
\* the children that have exited with a code other than 0
FailedChildren == {i \in DOMAIN last.exit : last.exit[i] # 0}

\* C24: Pipeline.run takes the steps one at a time in manifest order; once
\* step k has failed the failure leaves Pipeline.run, no later step is
\* resolved or run, and no step is run a second time.
C24_InOrderFailFast ==
    last.op = "pipeline" =>
        LET n == Len(Get(pipeline.steps))
        IN  /\ last.done <= n
            /\ last.ret = "ok" <=> last.done = n
            \* the commands started are those of steps 1, 2, ... in order,
            \* each once, and at most one beyond the steps that are done
            /\ Len(StepArgv) \in {last.done, last.done + 1}
            /\ Len(StepArgv) <= n
            /\ \A j \in 1..Len(StepArgv) : StepArgv[j][1] = StepParts(j)[2]
            \* run() is entered once for each step reached
            /\ Count(last.calls, "run") \in {last.done, last.done + 1}
            /\ Len(StepArgv) <= Count(last.calls, "run")
            \* a child that fails is the last child of the call
            /\ \A i \in FailedChildren : i = Len(last.exit)
            /\ FailedChildren # {} => last.ret = "SystemExit"
            /\ Len(StepArgv) = last.done + 1 => last.ret # "ok"

\* the first of two steps has failed and the second has not been started
C24_Witness ==
    /\ last.op = "pipeline"
    /\ Len(Get(pipeline.steps)) = 2
    /\ last.done = 0
    /\ last.ret = "SystemExit"
    /\ Len(StepArgv) = 1
    /\ Len(StepParts(2)) \in {2, 3}

\* both of two steps have run, the second after the first
C24_BothRan ==
    /\ last.op = "pipeline"
    /\ last.ret = "ok"
    /\ last.done = 2
    /\ Len(StepArgv) = 2

\* the calls of load_dotenv self has made during the last call
LoadsBy(self) == {i \in DOMAIN last.loaded : last.loaded[i].by = self}

\* C25: in every execution of Pipeline.run the pipeline's own dotenv file
\* is loaded exactly once, before the first step is parsed, resolved or
\* run.
C25_DotenvOnceFirst ==
    last.op = "pipeline" =>
        /\ LoadsBy("pipeline") = {1}
        /\ last.loaded[1].calls = 0
        /\ last.loaded[1].done = 0
        /\ last.loaded[1].file =
               (IF IsSome(last.env) THEN Get(last.env) ELSE ".env")
        /\ last.loaded[1].found = IsSome(dotfiles[last.loaded[1].file])

\* a pipeline with a dotenv file has run a step
C25_Witness ==
    /\ last.op = "pipeline"
    /\ last.done >= 1
    /\ LoadsBy("pipeline") = {1}
    /\ last.loaded[1].found

\* the environment the pipeline's load_dotenv has left: the file gives the
\* variables the process did not have
AfterPipelineDotenv(v) ==
    LET l == last.loaded[1]
    IN  IF IsSome(l.osenv[v]) \/ ~l.found THEN l.osenv[v]
        ELSE Get(dotfiles[l.file])[v]

C26_NoPipelineFile ==
    /\ last.op = "pipeline"
    /\ ~last.loaded[1].found
    /\ ~IsSome(last.loaded[1].osenv["ENVARG"])
    /\ \E j \in 1..Len(StepArgv) : StepParts(j)[1] = S_a
    /\ \E i \in DOMAIN last.child : last.child[i]["ENVARG"] = None

\* the step Pipeline.run has stopped at, when it has not done them all
Stopped == last.done < Len(Get(pipeline.steps))
StoppedAt == Get(pipeline.steps)[last.done + 1]

\* C27: a step is split on ":"; two segments are (component, command)
\* without a subcommand, three are (component, command, subcommand), and
\* any other number raises ValueError with the step in its message, the
\* step not being run.
C27_StepGrammar ==
    last.op = "pipeline" =>
        /\ \A j \in 1..Len(StepArgv) :
              /\ Len(StepParts(j)) \in {2, 3}
              /\ StepArgv[j][1] = StepParts(j)[2]
              /\ StepArgv[j][3] =
                     TypeoArg(S_pipe, Get(pipeline.typeo), StepParts(j)[2],
                              IF Len(StepParts(j)) = 3
                              THEN Some(StepParts(j)[3]) ELSE None)
        /\ (Stopped /\ Len(Split(StoppedAt, ":")) \notin {2, 3}) =>
              /\ last.ret = "ValueError"
              /\ last.msg = StoppedAt
              /\ Len(StepArgv) = last.done
              /\ Count(last.calls, "run") = last.done
        /\ (Stopped /\ Len(Split(StoppedAt, ":")) \in {2, 3}) =>
              ~(last.ret = "ValueError" /\ last.msg = StoppedAt)

\* a step of four segments has stopped a pipeline after a step of three
C27_Witness ==
    /\ last.op = "pipeline"
    /\ Len(Get(pipeline.steps)) = 2
    /\ last.done = 1
    /\ Len(StepParts(1)) = 3
    /\ Len(StepParts(2)) = 4
    /\ last.ret = "ValueError"
    /\ last.msg = <<"a", ":", "b", ":", "c", ":", "d">>

\* the manifest declares a step list that is not empty and a typeo table
Complete(file) ==
    /\ file.shape = "ok"
    /\ IsSome(file.steps)
    /\ Get(file.steps) # <<>>
    /\ IsSome(file.typeo)

\* C28: constructing a Pipeline raises ValueError, before any step can
\* run, unless the manifest declares both a step list that is not empty
\* and a typeo table: a missing list, an empty list and a missing table
\* are each rejected.
C28_RejectsIncomplete ==
    pipeline.state # "none" =>
        /\ pipeline.state = "ok" <=> Complete(pipefile)
        /\ pipeline.state = "failed" => pipeline.err = "ValueError"
        /\ (last.op = "pipeline" /\ last.calls # <<>>) => Complete(pipefile)

\* a manifest with steps = [] and a typeo table has been given to Pipeline
C28_EmptySteps ==
    /\ last.op = "construct"
    /\ pipefile.shape = "ok"
    /\ pipefile.steps = Some(<<>>)
    /\ IsSome(pipefile.typeo)

(***************************************************************************)
(* Claims about the manifest, checked under SpecResolve                    *)
(***************************************************************************)
\* C29: constructing a Project fails with ValueError whenever the manifest
\* declares no project name (no directory, no pyproject.toml, no tool
\* table, no tool.poetry table, no name key), and no Project without a
\* name is ever produced.
C29_NameRequired ==
    /\ (Constructing /\ pyproject.shape # "ok") =>
           /\ proj.state = "failed"
           /\ proj.err = "ValueError"
    /\ proj.state = "ok" => proj.hasName

\* a Shared project without a tool table, with an environment file of its
\* own that declares a name
C29_NoToolTable ==
    /\ Constructing
    /\ pyproject.shape = "notool"
    /\ poetryToml = TomlShared
    /\ IsSome(tree[1].yaml)
    /\ Get(tree[1].yaml) # <<>>

(***************************************************************************)
(* Claims about the manifest an instance holds, checked under SpecManifest *)
(***************************************************************************)
\* C30: the manifest is read once at construction and does not change for
\* the instance's lifetime: neither a later change of the file nor a
\* mutation of the object config or pinto_config returned, at top level or
\* inside a nested table, changes what config, pinto_config, steps and
\* typeo_config return later.
C30_ReadOnceImmutable ==
    manifest.heap # <<>> => Reads(manifest.heap) = manifest.atLoad

\* the caller has popped poetry from the tool table of a config it read
C30_NestedPop ==
    /\ manifest.heap # <<>>
    /\ manifest.writes = 1
    /\ Get(manifest.held) > 5
    /\ manifest.heap[Get(manifest.held)]["tool"] = Ref(2)
    /\ manifest.heap[2]["poetry"] = Absent

(***************************************************************************)
(* Claims about dotenv files in Project.run, checked under Spec            *)
(***************************************************************************)
\* variable v as the i-th load_dotenv call of the last call has left it:
\* the file, when there, gives the variables the process did not have
AfterLoad(i, v) ==
    LET l == last.loaded[i]
    IN  IF IsSome(l.osenv[v]) \/ ~l.found THEN l.osenv[v]
        ELSE Get(dotfiles[l.file])[v]

\* C31: Project.run without an env argument loads <project dir>/.env if
\* and only if it exists, and no file of another name; with an env argument
\* it loads that file instead; a missing file is skipped without error; the
\* load happens at most once, before the child is started, and the child
\* sees the variables loaded.
C31_DotenvSelection ==
    last.op = "run" =>
        /\ Len(last.loaded) <= 1
        /\ Pos(last.calls, "run") # {} <=> Len(last.loaded) = 1
        /\ Len(last.loaded) = 1 =>
              LET l == last.loaded[1]
              IN  /\ l.by = "project"
                  /\ l.file = (IF IsSome(last.env) THEN Get(last.env)
                               ELSE ".env")
                  /\ l.found = IsSome(dotfiles[l.file])
                  \* run() of the environment is entered right after it
                  /\ Pos(last.calls, "run") = {l.calls + 1}
                  /\ l.calls + 1 = Len(last.calls)
        /\ CommandRan =>
              /\ last.child[Len(last.child)]["ENVARG"] = AfterLoad(1, "ENVARG")
              /\ proj.kind = "Poetry" =>
                    \A v \in EnvVars :
                       last.child[Len(last.child)][v] = AfterLoad(1, v)

\* run(env="other") has given the child the value of that file, not the
\* one of .env
C31_Witness ==
    /\ CommandRan
    /\ last.env = Some("other")
    /\ IsSome(dotfiles[".env"])
    /\ last.loaded[1].found
    /\ ~IsSome(last.loaded[1].osenv["ENVARG"])
    /\ last.child[Len(last.child)]["ENVARG"] = Some(<<"2">>)

\* run() without env in a directory that has a dotenv file of another
\* name only: the child sees none of its variables
C31_OtherNameOnly ==
    /\ CommandRan
    /\ last.env = None
    /\ ~IsSome(dotfiles[".env"])
    /\ IsSome(dotfiles["other"])
    /\ last.child[Len(last.child)]["ENVARG"] = None

\* the dotenv file the last run() has loaded defines LD_LIBRARY_PATH
DotenvGivesLd ==
    /\ CommandRan
    /\ Len(last.loaded) = 1
    /\ last.loaded[1].found
    /\ IsSome(Get(dotfiles[last.loaded[1].file])[S_ld_var])

\* C36: the dotenv file is loaded after the cuda path is put in, so that
\* it overrides it: when the file defines LD_LIBRARY_PATH the child sees
\* the file's value and not the one with the cuda path.
C36_DotenvOverridesCuda ==
    (DotenvGivesLd /\ IsSome(pyproject.cuda)) =>
        /\ IsSome(ChildLd)
        /\ Split(Get(ChildLd), ":")[1] =
               Get(Get(dotfiles[last.loaded[1].file])[S_ld_var])
        /\ CudaPath(Get(pyproject.cuda)) \notin Entries(Get(ChildLd))

\* cuda-version is set and run(env="other") has loaded a file that defines
\* LD_LIBRARY_PATH
C36_Witness ==
    /\ DotenvGivesLd
    /\ IsSome(pyproject.cuda)
    /\ last.env = Some("other")

\* C39: variables a dotenv file has given the process in Project.run or
\* Pipeline.run are never removed: they stay in the parent's environment
\* after the call and the child of every later run sees them, also when
\* that call names another file or none and the directory has no .env.
C39_DotenvStays ==
    [][/\ \A v \in EnvVars : IsSome(osenv[v]) => IsSome(osenv'[v])
       /\ \A v \in EnvVars \ {S_ld_var} :
             IsSome(osenv[v]) => osenv'[v] = osenv[v]
       /\ last'.op \in {"run", "pipeline"} =>
             /\ \A i \in DOMAIN last'.loaded :
                   last'.loaded[i].found =>
                      \A v \in EnvVars :
                         IsSome(Get(dotfiles[last'.loaded[i].file])[v])
                            => IsSome(osenv'[v])
             /\ \A i \in DOMAIN last'.child, v \in EnvVars \ {S_ld_var} :
                   IsSome(osenv[v]) => last'.child[i][v] = osenv[v]]_vars

\* a run that loads no file, after a run that loaded other: its child sees
\* the value other gave
C39_Witness ==
    /\ CommandRan
    /\ nruns = 2
    /\ ~last.loaded[1].found
    /\ last.loaded[1].osenv["ENVARG"] = Some(<<"2">>)
    /\ last.child[Len(last.child)]["ENVARG"] = Some(<<"2">>)
    /\ osenv["ENVARG"] = Some(<<"2">>)

\* a Shared project whose base_env is a plain name that does not end in
\* -base
PlainBase ==
    /\ proj.state = "ok"
    /\ proj.kind = "Conda"
    /\ IsSome(pyproject.base_env)
    /\ proj.base_env.suffix = ""
    /\ ~BasePatternSearch(proj.base_env.str)

\* C38: with base_env a plain name that does not end in -base the resolved
\* name is base_env itself, so create() never creates the environment: it
\* does nothing when the environment exists and raises the ValueError
\* naming the missing clone source when it does not, and Project.install
\* and Project.run on a project whose environment is absent fail with
\* that error.
C38_PlainNameNeverCreated ==
    PlainBase =>
        /\ proj.envName = proj.base_env.str
        /\ proj.envName = Get(pyproject.base_env)
        /\ last.op \in {"create", "install", "run"} =>
              /\ last.backend = <<>>
              /\ envs = last.envs0
              /\ last.op = "create" /\ Existed =>
                    /\ last.ret = "ok"
                    /\ pkgs = last.pkgs0
              /\ ~Existed =>
                    /\ last.ret = "ValueError"
                    /\ last.msg = proj.envName
                    /\ Count(last.calls, "create") = 1
                    /\ last.calls[Len(last.calls)].call = "create"
                    /\ Count(last.calls, "install") = 0
                    /\ last.child = <<>>
                    /\ pkgs = last.pkgs0

\* Project.run on a project whose base_env is solo while no environment
\* solo exists
C38_Witness ==
    /\ PlainBase
    /\ last.op = "run"
    /\ proj.envName = S_solo
    /\ S_solo \notin last.envs0
    /\ last.ret = "ValueError"
    /\ last.msg = S_solo

(***************************************************************************)
(* Several Shared projects on one declaration file: sibling project       *)
(* directories whose parent holds the file.  A Shared Project keeps no     *)
(* state of its own between calls, so the calls of the siblings are the    *)
(* calls of whichever of them was constructed last.                        *)
(***************************************************************************)
S_baz == <<"baz">>

\* Project(path) on the sibling named name
ConstructSibling ==
    \E name \in {S_bar, S_baz} :
       \E py \in {[pyproject EXCEPT !.name = name]} :
          \E p \in {ProjectPostInit(tree, poetryToml, py, envs)} :
             \E m \in {PostInitBackend(Start, p)} :
                /\ pyproject' = py
                /\ proj' = [p EXCEPT !.handle = m.handle]
                /\ last' = [NoCall EXCEPT !.op = "construct",
                                          !.calls = m.calls,
                                          !.backend = m.backend,
                                          !.ret = p.err,
                                          !.ld0 = osenv[S_ld_var],
                                          !.envs0 = envs, !.pkgs0 = pkgs]
                /\ osenv' = m.osenv
                /\ envs' = m.envs
                /\ pkgs' = m.pkgs
                /\ cache' = m.cache
                /\ UNCHANGED <<tree, poetryToml, dotfiles, listing, pipefile,
                               pipeline, manifest, nruns, procs>>

InitShared ==
    /\ tree \in {<<NoDir, [NoDir EXCEPT !.yaml = Some(S_foo_base)]>>,
                 <<NoDir, [NoDir EXCEPT !.yml = Some(S_env)]>>}
    /\ poetryToml = TomlShared
    /\ pyproject = Py("ok", S_bar, None, None)
    /\ dotfiles = NoDotfiles
    /\ osenv \in OsEnvs
    /\ envs \in {{}, {S_foo_base}}
    /\ pkgs = {}
    /\ cache = {}
    /\ proj = NoProject
    /\ listing = {}
    /\ pipefile = NoPipefile
    /\ pipeline = NoPipeline
    /\ last = NoCall
    /\ nruns = 0
    /\ manifest = NoManifest
    /\ procs = NoProcs

NextShared == ConstructSibling \/ Install \/ Run \/ Create

SpecShared == InitShared /\ [][NextShared]_vars

\* C40: over any sequence of create(), Project.install and Project.run of
\* the Shared projects on one declaration file there is one environment per
\* resolved name: no environment goes away, the file's environment is
\* created from the file only while no environment has its name, at most
\* once in a call, and a clone into a target is issued only while no
\* environment has the target's name.
C40_OnePerName ==
    [][/\ envs \subseteq envs'
       /\ \A i \in DOMAIN last'.backend :
             LET c == last'.backend[i]
             IN  /\ c.name \notin envs
                 /\ \A j \in DOMAIN last'.backend :
                       last'.backend[j].name = c.name => j = i
                 /\ c.cmd = "env create" =>
                       c.name = FileContent(tree, proj.base_env)
                 /\ c.cmd = "clone" =>
                       /\ c.name = proj.envName
                       /\ FileContent(tree, proj.base_env) \in envs'
       /\ envs' \subseteq envs \cup {last'.backend[i].name :
                                       i \in DOMAIN last'.backend}]_vars

\* the second sibling is cloned from the environment the first sibling's
\* call has created from the file
C40_Witness ==
    /\ proj.name = S_baz
    /\ last.op \in {"create", "install", "run"}
    /\ last.envs0 = {S_foo_base, <<"foo", "-", "bar">>}
    /\ last.backend = <<[cmd |-> "clone", name |-> <<"foo", "-", "baz">>]>>
    /\ envs = {S_foo_base, <<"foo", "-", "bar">>, <<"foo", "-", "baz">>}

(***************************************************************************)
(* utils.py: temp_env_set.  kwargs is a function from the names given to   *)
(* their values; body says whether the block under `with` ends normally or *)
(* raises.                                                                 *)
(***************************************************************************)
\* get_new_value(new, old, action) for the three actions of Actions
get_new_value(new, old, action) ==
    IF action = "replace" \/ ~IsSome(old) THEN new
    ELSE IF action = "append" THEN Get(old) \o <<":">> \o new
    ELSE new \o <<":">> \o Get(old)

\* lines 23-37: the old values of the variables that are set are kept in
\* unset, and every variable named gets its new value
TempEnvUnset(os, kwargs) ==
    [key \in {k \in DOMAIN kwargs : IsSome(os[k])} |-> Get(os[key])]
TempEnvEnter(os, action, kwargs) ==
    [v \in DOMAIN os |->
        IF v \in DOMAIN kwargs
        THEN Some(get_new_value(kwargs[v], os[v], action))
        ELSE os[v]]

\* lines 40-53: a variable in unset gets its old value, any other variable
\* named is popped
TempEnvLeave(os, unset, kwargs) ==
    [v \in DOMAIN os |->
        IF v \notin DOMAIN kwargs THEN os[v]
        ELSE IF v \in DOMAIN unset THEN Some(unset[v])
        ELSE None]

\* with temp_env_set(action, **kwargs): <body>.  The generator is resumed
\* after the yield only when the block ends normally: an exception of the
\* block is thrown into it at the yield, which no try encloses, so lines
\* 40-53 are not reached.  child keeps the environment the block has seen.
temp_env_set(m, action, kwargs, body) ==
    LET unset == TempEnvUnset(m.osenv, kwargs)
        inside == TempEnvEnter(m.osenv, action, kwargs)
    IN  IF body = "raises"
        THEN Raise([m EXCEPT !.osenv = inside,
                             !.child = Append(@, inside)],
                   "RuntimeError", 0)
        ELSE [m EXCEPT !.osenv = TempEnvLeave(inside, unset, kwargs),
                       !.child = Append(@, inside)]

S_new == <<"/", "new">>
TempEnvKwargs ==
    {[k \in K |-> S_new] : K \in (SUBSET {S_ld_var, "ENVARG"}) \ {{}}}

\* a `with temp_env_set(...)` statement
TempEnvSet ==
    /\ nruns < MaxRuns
    /\ \E action \in {"replace", "append", "insert"},
          kwargs \in TempEnvKwargs, body \in {"ends", "raises"} :
          \E m \in {temp_env_set(Start, action, kwargs, body)} :
              Finish(m, "temp_env_set", FALSE, None)
    /\ nruns' = nruns + 1
    /\ UNCHANGED <<proj, pipeline>>

InitTempEnv ==
    /\ tree = <<NoDir>>
    /\ poetryToml = None
    /\ pyproject = Py("ok", S_bar, None, None)
    /\ dotfiles = NoDotfiles
    /\ osenv \in OsEnvs
    /\ envs = {}
    /\ pkgs = {}
    /\ cache = {}
    /\ proj = NoProject
    /\ listing = {}
    /\ pipefile = NoPipefile
    /\ pipeline = NoPipeline
    /\ last = NoCall
    /\ nruns = 0
    /\ manifest = NoManifest
    /\ procs = NoProcs

NextTempEnv == TempEnvSet

SpecTempEnv == InitTempEnv /\ [][NextTempEnv]_vars

\* C32: temp_env_set is a reversible scope: however the block under `with`
\* ends, normally or by an exception, every variable is afterwards what it
\* was on entry, and a variable that was unset on entry is unset again,
\* for each of the actions replace, append and insert.
C32_ReversibleScope ==
    [][last'.op = "temp_env_set" =>
          \A v \in EnvVars : osenv'[v] = osenv[v]]_vars

\* a block that raised has left the new value of a variable that was unset
\* before in the environment
C32_Witness ==
    /\ last.op = "temp_env_set"
    /\ last.ret = "RuntimeError"
    /\ nruns = 1
    /\ osenv["ENVARG"] = Some(S_new)
    /\ last.child = <<osenv>>

\* a block that ended normally has seen the new value and left the old one
C32_NormalExit ==
    /\ last.op = "temp_env_set"
    /\ last.ret = "ok"
    /\ last.child[1][S_ld_var] =
          Some(<<"/", "opt", "/", "lib">> \o <<":">> \o S_new)
    /\ osenv[S_ld_var] = Some(<<"/", "opt", "/", "lib">>)
    /\ osenv["ENVARG"] = None

(***************************************************************************)
(* cli.py: pinto build.  flags is [force]; extra_args are the arguments    *)
(* parse_known_args did not recognise.  The calls Project(...) and         *)
(* project.install(...) are noted in m.calls, the latter with force.       *)
(***************************************************************************)
\* a build that looks at its arguments when the project is installed
BuildCommandRun_CheckLast(m, t, toml, py, flags, extra_args, b) ==
    LET p  == ProjectPostInit(t, toml, py, m.envs)
        m0 == [m EXCEPT !.extra = extra_args]
        m1 == PostInitBackend(Call(m0, "Project", FALSE), p)
        m2 == IF p.err # "ok" THEN Raise(m1, p.err, 0)
              ELSE ProjectInstall(Call(m1, "Project.install", flags.force),
                                  p, t, flags.force, b)
    IN  IF m2.ret = "ok" /\ Len(extra_args) > 0
        THEN [Raise(m2, "RuntimeError", 0) EXCEPT !.msg = extra_args]
        ELSE m2

\* BuildCommand.run(flags, extra_args), lines 207-212
BuildCommandRun(m, t, toml, py, flags, extra_args, b) ==
    LET p  == ProjectPostInit(t, toml, py, m.envs)
        m0 == [m EXCEPT !.extra = extra_args]
        m1 == PostInitBackend(Call(m0, "Project", FALSE), p)
    IN  IF Len(extra_args) > 0
        THEN [Raise(m0, "RuntimeError", 0) EXCEPT !.msg = extra_args]
        ELSE IF p.err # "ok" THEN Raise(m1, p.err, 0)
        ELSE ProjectInstall(Call(m1, "Project.install", flags.force),
                            p, t, flags.force, b)

\* the arguments of test_cli_build_poetry
ExtraArgs == {<<>>, <<"--no-more">>, <<"--no-more", "args">>}

\* pinto build [-f] [extra_args]: a process of its own, whose Project is
\* gone when it ends
Build ==
    /\ \E force \in BOOLEAN, extra_args \in ExtraArgs, b \in Outcomes :
          \E m \in {BuildCommandRun([Start EXCEPT !.handle = FALSE], tree,
                                    poetryToml, pyproject,
                                    [force |-> force], extra_args, b)} :
              Finish(m, "build", force, None)
    /\ UNCHANGED <<proj, pipeline, nruns>>

InitCli ==
    /\ \E c \in Projects \cup {<<<<NoDir, NoDir>>, TomlShared, None>>},
          shape \in {"ok", "nofile"} :
          /\ tree = c[1]
          /\ poetryToml = c[2]
          /\ pyproject = Py(shape, S_bar, c[3], None)
    /\ dotfiles = NoDotfiles
    /\ osenv \in OsEnvs
    /\ envs \in {{}, {S_team_base, S_solo}}
    /\ pkgs = {}
    /\ cache = {}
    /\ proj = NoProject
    /\ listing = {}
    /\ pipefile = NoPipefile
    /\ pipeline = NoPipeline
    /\ last = NoCall
    /\ nruns = 0
    /\ manifest = NoManifest
    /\ procs = NoProcs

NextCli == Build

SpecCli == InitCli /\ [][NextCli]_vars

\* a build with unrecognised arguments raises the RuntimeError that lists
\* them before a Project is constructed: nothing is asked of a backend,
\* created or installed
RefusesExtraArgs ==
    (last.op = "build" /\ last.extra # <<>>) =>
        /\ last.ret = "RuntimeError"
        /\ last.msg = last.extra
        /\ last.calls = <<>>
        /\ last.backend = <<>>
        /\ last.child = <<>>
        /\ envs = last.envs0
        /\ pkgs = last.pkgs0

\* C33, as stated: the build command with unrecognised arguments fails with
\* the RuntimeError listing them before a Project is constructed, and with
\* no such arguments it calls Project.install(force, extras) exactly once.
C33_BuildInstallsOnce ==
    /\ RefusesExtraArgs
    /\ (last.op = "build" /\ last.extra = <<>>) =>
          /\ Count(last.calls, "Project.install") = 1
          /\ Answered(last.calls, "Project.install", last.force)

\* C33, amended: the build command with unrecognised arguments fails with
\* the RuntimeError listing them before a Project is constructed; with no
\* such arguments it constructs the Project once, first, and when the
\* construction succeeds it calls Project.install with the force flag
\* exactly once; when the construction raises, install is not called.
C33_BuildInstallsOnceConstructed ==
    /\ RefusesExtraArgs
    /\ (last.op = "build" /\ last.extra = <<>>) =>
          LET p == ProjectPostInit(tree, poetryToml, pyproject, last.envs0)
          IN  /\ Count(last.calls, "Project") = 1
              /\ last.calls[1].call = "Project"
              /\ p.err = "ok" =>
                    /\ Count(last.calls, "Project.install") = 1
                    /\ Answered(last.calls, "Project.install", last.force)
                    /\ Before(last.calls, "Project", "Project.install")
              /\ p.err # "ok" =>
                    /\ Count(last.calls, "Project.install") = 0
                    /\ last.ret = p.err
                    /\ envs = last.envs0
                    /\ pkgs = last.pkgs0

\* pinto build --no-more args on a project that a build without them installs
C33_Witness ==
    /\ last.op = "build"
    /\ last.extra = <<"--no-more", "args">>
    /\ last.ret = "RuntimeError"
    /\ last.msg = <<"--no-more", "args">>
    /\ pyproject.shape = "ok"
    /\ EnvClass(poetryToml) = "Poetry"
    /\ envs = {}

\* pinto build -f has created the environment and installed the project
C33_Built ==
    /\ last.op = "build"
    /\ last.extra = <<>>
    /\ last.force
    /\ last.ret = "ok"
    /\ last.envs0 = {}
    /\ PoetryEnvName(S_bar) \in envs
    /\ PoetryEnvName(S_bar) \in pkgs

\* the pipeline has a step string that does not parse
Unparsable(step) == Len(Split(step, ":")) \notin {2, 3}
HasUnparsable ==
    /\ pipeline.state = "ok"
    /\ \E i \in DOMAIN Get(pipeline.steps) : Unparsable(Get(pipeline.steps)[i])

\* C34: Pipeline.run parses every step string before it resolves or runs
\* the first step, so a pipeline with an unparsable step string at any
\* position raises the ValueError without having resolved or run a step.
C34_ParsedBeforeRun ==
    (last.op = "pipeline" /\ HasUnparsable) =>
        /\ last.ret = "ValueError"
        /\ last.done = 0
        /\ last.calls = <<>>
        /\ last.backend = <<>>
        /\ last.child = <<>>
        /\ envs = last.envs0
        /\ pkgs = last.pkgs0

\* the first step has been installed and run before the second, which has
\* no command, is rejected
C34_Witness ==
    /\ last.op = "pipeline"
    /\ Get(pipeline.steps) = <<<<"a", ":", "build">>, <<"a">>>>
    /\ last.done = 1
    /\ Len(last.child) = 1
    /\ last.exit = <<0>>
    /\ last.ret = "ValueError"
    /\ last.msg = <<"a">>
    /\ envs # last.envs0

(***************************************************************************)
(* An Isolated project whose virtual environment is made or removed from   *)
(* outside (another process, the user) between the calls.  exists() asks   *)
(* the EnvManager each time; the handle _venv is the Project's own.        *)
(***************************************************************************)
\* the virtual environment is made from outside, empty
ExternalCreate ==
    /\ proj.state = "ok"
    /\ proj.envName \notin envs
    /\ envs' = envs \cup {proj.envName}
    /\ UNCHANGED <<tree, poetryToml, pyproject, dotfiles, osenv, pkgs, cache,
                   proj, listing, pipefile, pipeline, last, nruns, manifest,
                   procs>>

\* the virtual environment is removed from outside, with what it holds
ExternalDelete ==
    /\ proj.state = "ok"
    /\ proj.envName \in envs
    /\ envs' = envs \ {proj.envName}
    /\ pkgs' = pkgs \ {proj.envName}
    /\ UNCHANGED <<tree, poetryToml, pyproject, dotfiles, osenv, cache,
                   proj, listing, pipefile, pipeline, last, nruns, manifest,
                   procs>>

InitExternal ==
    /\ tree = <<NoDir, NoDir>>
    /\ poetryToml = None
    /\ pyproject = Py("ok", S_bar, None, None)
    /\ dotfiles = NoDotfiles
    /\ osenv \in OsEnvs
    /\ envs \in {{}, {PoetryEnvName(S_bar)}}
    /\ pkgs = {}
    /\ cache = {}
    /\ proj = NoProject
    /\ listing = {}
    /\ pipefile = NoPipefile
    /\ pipeline = NoPipeline
    /\ last = NoCall
    /\ nruns = 0
    /\ manifest = NoManifest
    /\ procs = NoProcs

NextExternal ==
    Construct \/ Install \/ Run \/ Create \/ ExternalCreate \/ ExternalDelete

SpecExternal == InitExternal /\ [][NextExternal]_vars

\* C37: for an Isolated project, whatever is done to its virtual
\* environment from outside between construction and the call, a
\* Project.install or Project.run in which exists() has answered true or
\* create() has been called does not end in the ValueError of contains()
\* (`Virtual environment ... not created`).
C37_ContainsHasHandle ==
    (/\ last.op \in {"install", "run"}
     /\ proj.kind = "Poetry"
     /\ \/ Answered(last.calls, "exists", TRUE)
        \/ Count(last.calls, "create") > 0)
    => last.ret # "ValueError"

\* install on a Project constructed while the environment was absent,
\* after the environment was made from outside: exists() answers true,
\* create() is skipped and contains() finds no handle
C37_Witness ==
    /\ last.op = "install"
    /\ proj.kind = "Poetry"
    /\ last.calls = <<[call |-> "exists", ans |-> TRUE]>>
    /\ proj.envName \in last.envs0
    /\ ~proj.handle
    /\ last.ret = "ValueError"

(***************************************************************************)
(* env.py: CondaEnvironment.create in two processes at once.  Each process *)
(* has constructed its own Project on the same directory; a Shared         *)
(* Project keeps nothing between calls, so proj stands for both.  Every    *)
(* query of conda and every conda command is a step of its own, and the    *)
(* steps of the two processes interleave.  A process is                    *)
(*   [pc, name, env_name, cmds, ret, msg]                                  *)
(* with pc "start", "absent" (exists() has answered false), "make" (the    *)
(* file's environment was not found), "source" (before the check of the    *)
(* clone source), "clone" (before the clone command) or "done"; cmds are   *)
(* the conda commands the process has issued.                              *)
(***************************************************************************)
ProcStart ==
    [pc |-> "start", name |-> <<>>, env_name |-> <<>>, cmds |-> <<>>,
     ret |-> "ok", msg |-> <<>>]

Issue(pr, cmd, name) ==
    [pr EXCEPT !.cmds = Append(@, [cmd |-> cmd, name |-> name])]

\* lines 247-249: if self.exists(): return
StepExists(pr, p, E) ==
    IF p.envName \in E THEN [pr EXCEPT !.pc = "done", !.name = p.envName]
    ELSE [pr EXCEPT !.pc = "absent", !.name = p.envName]

\* lines 253-258 and 283-285: the name of the base and, for a file,
\* whether the environment it declares exists
StepLookBase(pr, p, t, E) ==
    IF _is_yaml(p.base_env.str)
    THEN LET rd == _read_env_name(FileContent(t, p.base_env))
         IN  IF rd.err # "ok" THEN [pr EXCEPT !.pc = "done", !.ret = rd.err]
             ELSE IF rd.name \notin E
             THEN [pr EXCEPT !.pc = "make", !.env_name = rd.name]
             ELSE IF rd.name = pr.name THEN [pr EXCEPT !.pc = "done"]
             ELSE [pr EXCEPT !.pc = "source", !.env_name = rd.name]
    ELSE [pr EXCEPT !.pc = "source", !.env_name = p.base_env.str]

\* lines 267-283: conda env create -f; ok is what conda answers
StepEnvCreate(pr, ok) ==
    LET issued == Issue(pr, "env create", pr.env_name)
    IN  IF ~ok THEN [issued EXCEPT !.pc = "done", !.ret = "RuntimeError"]
        ELSE IF pr.env_name = pr.name THEN [issued EXCEPT !.pc = "done"]
        ELSE [issued EXCEPT !.pc = "source"]

\* a check that also asks whether the target has appeared meanwhile
StepCheckSource_TargetToo(pr, E) ==
    IF pr.name \in E THEN [pr EXCEPT !.pc = "done"]
    ELSE IF pr.env_name \notin E
    THEN [pr EXCEPT !.pc = "done", !.ret = "ValueError",
                    !.msg = pr.env_name]
    ELSE [pr EXCEPT !.pc = "clone"]

\* lines 287-288: the clone source has to exist
StepCheckSource(pr, E) ==
    IF pr.env_name \notin E
    THEN [pr EXCEPT !.pc = "done", !.ret = "ValueError",
                    !.msg = pr.env_name]
    ELSE [pr EXCEPT !.pc = "clone"]

\* lines 297-299: conda create -n <name> --clone <env_name>; rc is what
\* conda answers
StepClone(pr, rc) ==
    LET issued == Issue(pr, "clone", pr.name)
    IN  IF rc # 0 THEN [issued EXCEPT !.pc = "done", !.ret = "SystemExit"]
        ELSE [issued EXCEPT !.pc = "done"]

\* process i takes a step that leaves it as pr and the environments as E
ProcStep(i, pr, E) ==
    /\ procs' = [j \in DOMAIN procs |-> IF j = i THEN pr ELSE procs[j]]
    /\ envs' = E
    /\ UNCHANGED <<tree, poetryToml, pyproject, dotfiles, osenv, pkgs, cache,
                   proj, listing, pipefile, pipeline, last, nruns, manifest>>

RaceExists ==
    \E i \in DOMAIN procs :
       /\ procs[i].pc = "start"
       /\ ProcStep(i, StepExists(procs[i], proj, envs), envs)

RaceLookBase ==
    \E i \in DOMAIN procs :
       /\ procs[i].pc = "absent"
       /\ ProcStep(i, StepLookBase(procs[i], proj, tree, envs), envs)

\* what conda does with a name another process has just created is not
\* the code's to decide: either answer is taken
RaceEnvCreate ==
    \E i \in DOMAIN procs, ok \in BOOLEAN :
       /\ procs[i].pc = "make"
       /\ ProcStep(i, StepEnvCreate(procs[i], ok),
                   IF ok THEN envs \cup {procs[i].env_name} ELSE envs)

RaceCheckSource ==
    \E i \in DOMAIN procs :
       /\ procs[i].pc = "source"
       /\ ProcStep(i, StepCheckSource(procs[i], envs), envs)

RaceClone ==
    \E i \in DOMAIN procs, rc \in {0, 1} :
       /\ procs[i].pc = "clone"
       /\ ProcStep(i, StepClone(procs[i], rc),
                   IF rc = 0 THEN envs \cup {procs[i].name} ELSE envs)

MaxProcs == 2

InitRace ==
    /\ \E c \in {<<<<NoDir, [NoDir EXCEPT !.yaml = Some(S_foo_base)]>>, None>>,
                <<<<[NoDir EXCEPT !.yaml = Some(S_env)], NoDir>>, None>>,
                <<<<NoDir, NoDir>>, Some(S_team_base)>>,
                <<<<NoDir, NoDir>>, Some(S_solo)>>} :
          /\ tree = c[1]
          /\ pyproject = Py("ok", S_bar, c[2], None)
    /\ poetryToml = TomlShared
    /\ dotfiles = NoDotfiles
    /\ osenv = NoOsEnv
    /\ envs \in {{}, {S_foo_base}, {S_team_base, S_solo}}
    /\ pkgs = {}
    /\ cache = {}
    /\ proj = ProjectPostInit(tree, poetryToml, pyproject, envs)
    /\ listing = {}
    /\ pipefile = NoPipefile
    /\ pipeline = NoPipeline
    /\ last = NoCall
    /\ nruns = 0
    /\ manifest = NoManifest
    /\ procs = [i \in 1..MaxProcs |-> ProcStart]

NextRace ==
    RaceExists \/ RaceLookBase \/ RaceEnvCreate \/ RaceCheckSource
    \/ RaceClone

SpecRace == InitRace /\ [][NextRace]_vars

\* process i has issued a conda command that makes the environment name
Issued(i, name) ==
    \E k \in DOMAIN procs[i].cmds : procs[i].cmds[k].name = name

\* C35: creation of a Shared environment is not mutually excluded between
\* two processes: nothing a process does after its exists() has answered
\* false depends on whether the target has appeared since.  A process that
\* found the clone source goes on to the clone whatever the other has
\* created, the clone command and the env create command are issued
\* without another look at the environments, and a command for the target
\* is only issued by a process whose exists() answered false; so both
\* processes can observe exists() = false and both issue the command.
C35_NoMutualExclusion ==
    [][\A i \in DOMAIN procs :
          procs'[i] # procs[i] =>
             /\ (procs[i].pc = "source" /\ procs[i].env_name \in envs)
                   => procs'[i].pc = "clone"
             /\ procs[i].pc = "clone" =>
                   procs'[i].cmds =
                      Append(procs[i].cmds,
                             [cmd |-> "clone", name |-> proj.envName])
             /\ procs[i].pc = "make" =>
                   procs'[i].cmds =
                      Append(procs[i].cmds,
                             [cmd |-> "env create",
                              name |-> procs[i].env_name])
             /\ procs[i].pc \notin {"clone", "make"} =>
                   procs'[i].cmds = procs[i].cmds
             /\ procs[i].pc = "start" =>
                   (procs'[i].pc = "done" <=> proj.envName \in envs)]_vars

\* both processes have found the target absent and both have issued the
\* clone into it
C35_Witness ==
    \E i, j \in DOMAIN procs :
       /\ i # j
       /\ \A h \in {i, j} :
             /\ procs[h].pc = "done"
             /\ procs[h].name = proj.envName
             /\ \E k \in DOMAIN procs[h].cmds :
                   procs[h].cmds[k] = [cmd |-> "clone", name |-> proj.envName]

\* both processes have issued conda env create for the target the file
\* declares
C35_BothFromFile ==
    /\ proj.envName = S_env
    /\ \E i, j \in DOMAIN procs :
          /\ i # j
          /\ \A h \in {i, j} :
                procs[h].cmds = <<[cmd |-> "env create", name |-> S_env]>>

====
